---- MODULE Spec2Model ----
(***************************************************************************)
(* A model of the bundle pipeline of the hardy Bundle Protocol Agent:      *)
(* the two-tier store (bundle-data blobs + metadata rows), bundle ingress, *)
(* the startup consistency scan, the dispatcher's per-bundle operations    *)
(* and the forwarding loop.                                                *)
(*                                                                         *)
(* Status-report bundles are kept in the bag `reports` (one element per    *)
(* report bundle created by dispatch_status_report) instead of as rows and *)
(* blobs of their own.                                                     *)
(***************************************************************************)
EXTENDS Integers, Sequences, FiniteSets, Bags, TLC

\* ------------------------------------------------------------------ bounds
\* Storage names the bundle-data store can hand out (names are never reused).
MaxNames == 5
\* Concurrent ingress / Store::store calls explored.
MaxCalls == 2
\* restart_bundle tasks running at once (available_parallelism() + 1).
Parallelism == 2
\* Blobs present in the bundle-data store when the agent starts.
InitBlobs == 2
\* Dispatcher tasks and CLA/application calls running at once.
MaxTasks == 2
\* Largest max_forwarding_delay explored.
MaxDelay == 2
\* Deadlines are drawn from 1..MaxTime.
MaxTime == 2
\* Longest list of CLAs a FIB lookup returns.
MaxClas == 2

\* ------------------------------------------------------------- data model
Ids == {"b1", "b2"}
NoId == "none"
NoName == 0
Names == 1..MaxNames
NoReason == "none"

\* Bundle bytes: which bundle they encode and how.  "canonical" parses as
\* Valid, "noncanonical" as Rewritten, "invalid" as Invalid; Junk is not
\* even a CBOR array.
Forms == {"canonical", "noncanonical", "invalid"}
NoData == [id |-> NoId, form |-> "none"]
Junk == [id |-> NoId, form |-> "junk"]
BundleBytes == [id : Ids, form : Forms]
Bytes == BundleBytes \cup {Junk}

\* Bundle::canonicalise: the shortest-form re-encoding of the same bundle.
Canonicalise(d) ==
    [d EXCEPT !.form = "canonical"]

\* ValidBundle::parse: the classification, the bundle parsed, the bytes to
\* keep (the canonical re-encoding for Rewritten) and the parse reason.
Parse(d) ==
    CASE d.form = "canonical" ->
            [kind |-> "Valid", id |-> d.id, data |-> d, reason |-> NoReason]
      [] d.form = "noncanonical" ->
            [kind |-> "Rewritten", id |-> d.id, data |-> Canonicalise(d),
             reason |-> NoReason]
      [] d.form = "invalid" ->
            [kind |-> "Invalid", id |-> d.id, data |-> d,
             reason |-> "BlockUnintelligible"]
      [] OTHER ->
            [kind |-> "Err", id |-> NoId, data |-> d, reason |-> NoReason]

\* SHA-256 of the bytes: collision-free.
Hash(d) ==
    [sha256 |-> d]
NoHash == Hash(NoData)

DefaultStatus == "DispatchPending"
VARIABLES
    blobs,          \* bundle-data store: storage name -> bytes (NoData: absent)
    rows,           \* metadata store: set of [id, status, storage_name, hash]
    unconfirmed,    \* metadata store: ids not touched by the current scan
    nextName,       \* next storage name the bundle-data store hands out
    reports,        \* bag of status reports created
    statusReports,  \* config: status_reports
    flags,          \* per bundle: the report kinds its flags request
    expired,        \* bundles whose lifetime has elapsed
    dispatched,     \* bundles handed to dispatch_bundle
    calls,          \* ingress / Store::store calls in progress
    main,           \* main() and Store::start: position and what was started
    tasks,          \* restart_bundle tasks, by the listed storage name
    cancelled,      \* the cancellation token
    snap,           \* the stores as the first scan left them
    dtasks,         \* dispatcher tasks and calls in progress
    config,         \* dispatcher configuration
    ack,            \* per bundle: handle and deadline of ForwardAckPending
    clock,          \* the time now and the time of the poller's next poll
    queued,         \* per bundle: the metadata sent with it to the dispatcher
    clas            \* the CLA registry's indexes and the channels' mutexes

storeVars == <<blobs, rows, unconfirmed, nextName>>
cfgVars == <<statusReports, flags, expired, clock, queued, clas>>
scanVars == <<main, tasks, cancelled, snap>>
dispVars == <<dtasks, config, ack>>
vars == <<blobs, rows, unconfirmed, nextName, reports, statusReports, flags,
          expired, dispatched, calls, main, tasks, cancelled, snap, dtasks,
          config, ack, clock, queued, clas>>

\* Where no clock is kept, time is left to the choices of the actions.
NoClock == [now |-> 0, poll |-> 0]
NoQueued == [status |-> "none", until |-> 0]

\* The CLA registry: tokens stand for the 16-character strings register
\* draws, channels for the gRPC clients it connects.
MaxTokens == 2
MaxChannels == 3
Tokens == 1..MaxTokens
NoToken == 0
Channels == 1..MaxChannels
NoChannel == 0
ClaNames == {"cla1", "cla2"}
ClaIdents == {"ident1", "ident2"}
\* struct Cla; the protocol is carried along and never read by the registry.
NoCla == [token |-> NoToken, name |-> "none", ident |-> "none",
          endpoint |-> NoChannel]
\* Indexes, the number of channels connected so far, and the channels whose
\* tokio Mutex is held.
NoClas ==
    [clas_by_name |-> [n \in ClaNames |-> NoCla],
     clas_by_token |-> [t \in Tokens |-> NoCla],
     connected |-> 0, locked |-> {}]

\* ------------------------------------------------------- bundle-data store
\* BundleStorage::store chooses the name; here a name never used before.
BlobStore(name, d) ==
    [blobs EXCEPT ![name] = d]
BlobRemove(name) ==
    IF name \in Names THEN [blobs EXCEPT ![name] = NoData] ELSE blobs
BlobLoad(name) ==
    IF name \in Names THEN blobs[name] ELSE NoData
StoredNames ==
    {n \in Names : blobs[n] # NoData}

\* ----------------------------------------------------------- metadata store
NoRow == [id |-> NoId, status |-> "none", storage_name |-> NoName, hash |-> NoHash]
MetaHas(id) ==
    \E r \in rows : r.id = id
MetaLoad(id) ==
    IF MetaHas(id) THEN CHOOSE r \in rows : r.id = id ELSE NoRow
\* MetadataStorage::store: inserts unless a row with the BundleId exists;
\* the test and the insert are one atomic operation.
MetaStore(row) ==
    IF MetaHas(row.id) THEN rows ELSE rows \cup {row}
MetaSetStatus(id, st) ==
    {IF r.id = id THEN [r EXCEPT !.status = st] ELSE r : r \in rows}
MetaRemove(id) ==
    {r \in rows : r.id # id}
\* MetadataStorage::confirm_exists(bundle_id): the row of the BundleId, if
\* any, is no longer unconfirmed; the row is returned (MetaLoad).
ConfirmExists(id) ==
    unconfirmed \ {id}

\* ------------------------------------------------------------------ reports
Report(kind, id, reason) ==
    [kind |-> kind, id |-> id, reason |-> reason]
\* report_bundle_reception / _forwarded / _deleted: a report bundle is
\* created iff status reports are enabled and the bundle requests the kind.
ReportIf(kind, id, reason) ==
    IF statusReports /\ kind \in flags[id]
    THEN SetToBag({Report(kind, id, reason)})
    ELSE EmptyBag

\* check_bundle: a reason found by parsing stands; otherwise lifetime.
CheckReason(id, reason) ==
    IF reason # NoReason THEN reason
    ELSE IF id \in expired THEN "LifetimeExpired"
    ELSE NoReason

\* drop_bundle on the row of `id`: deletion report when a reason is given,
\* the row becomes a Tombstone, the data blob is deleted.
DropReports_Always(id, reason) ==
    ReportIf("deleted", id, "NoAdditionalInformation")
DropReports(id, reason) ==
    IF reason # NoReason THEN ReportIf("deleted", id, reason) ELSE EmptyBag
LeaveTombstone(id) ==
    MetaSetStatus(id, "Tombstone")

\* check_bundle(bundle, reason) for the stored row of `id` whose data is at
\* `name`: drop it, or hand it to dispatch_bundle.
CheckBundle(id, name, reason) ==
    LET why == CheckReason(id, reason) IN
    IF why # NoReason
    THEN /\ reports' = reports (+) DropReports(id, why)
         /\ rows' = LeaveTombstone(id)
         /\ blobs' = BlobRemove(name)
         /\ dispatched' = dispatched
    ELSE /\ dispatched' = dispatched \cup {id}
         /\ UNCHANGED <<reports, rows, blobs>>

\* ------------------------------------------------------------ dispatcher
DTasks == 1..MaxTasks
Times == 1..MaxTime
NoTime == 0
NoAck == [handle |-> 0, until |-> NoTime]
\* A task's locals; list, tried, handed, offer and sleeps record what a
\* forward_bundle call has done: the FIB's list of this pass, the CLAs looked
\* up so far in it, the CLAs that took the bundle, the deadline a CLA
\* offered with Pending, the retry sleeps made, the number of actions taken
\* from the FIB's list in this pass, and whether the pass looked up the FIB
\* at or after the bundle's expiry.
NoDTask ==
    [op |-> "none", pc |-> "idle", id |-> NoId, mem |-> "none", handle |-> 0,
     previous |-> FALSE, retries |-> 0, dest |-> "none", clas |-> <<>>,
     until |-> NoTime, congestion |-> NoTime, iters |-> 0,
     result |-> "none", reason |-> NoReason,
     list |-> <<>>, tried |-> <<>>, handed |-> 0, offer |-> NoTime,
     sleeps |-> 0, taken |-> 0, stale |-> FALSE]
\* Dispatcher::Config: max_forwarding_delay (default 5) and whether a FIB
\* is configured.
DefaultConfig ==
    [max_forwarding_delay |-> MaxDelay, forwarding |-> TRUE]
DispatcherIdle ==
    /\ dtasks = [k \in DTasks |-> NoDTask]
    /\ config = DefaultConfig
    /\ ack = [i \in Ids |-> NoAck]

\* -------------------------------------------------------------------- calls
Calls == 1..MaxCalls
IdleCall ==
    [op |-> "none", pc |-> "idle", input |-> NoData, data |-> NoData,
     id |-> NoId, name |-> NoName, hash |-> NoHash, status |-> "none",
     reason |-> NoReason, written |-> NoData, result |-> "none"]

\* receive_bundle after the pre-check and the parse.
ReceiveBegun(bytes) ==
    LET p == Parse(bytes) IN
    CASE p.kind = "Err" ->
           [IdleCall EXCEPT !.op = "receive_bundle", !.input = bytes,
                            !.pc = "done", !.result = "error"]
      [] p.kind = "Invalid" ->
           [IdleCall EXCEPT !.op = "receive_bundle", !.input = bytes,
                            !.id = p.id, !.status = "Tombstone",
                            !.reason = "BlockUnintelligible",
                            !.pc = "report"]
      [] OTHER ->
           [IdleCall EXCEPT !.op = "receive_bundle", !.input = bytes,
                            !.id = p.id, !.data = p.data,
                            !.status = DefaultStatus,
                            !.pc = "store_data"]

\* Dispatcher::receive_bundle up to the first await: the pre-check and the
\* parse.  Invalid bundles skip the data store and go to receive_inner as a
\* Tombstone without storage name.
ReceiveBundle_StoresInvalid(c, bytes) ==
    LET p == Parse(bytes) IN
    /\ main.grpc
    /\ calls[c].pc = "idle"
    /\ calls' = [calls EXCEPT ![c] =
         IF p.kind = "Err"
         THEN [IdleCall EXCEPT !.op = "receive_bundle", !.input = bytes,
                               !.pc = "done", !.result = "error"]
         ELSE [IdleCall EXCEPT !.op = "receive_bundle", !.input = bytes,
                               !.id = p.id, !.data = p.data,
                               !.status = IF p.kind = "Invalid" THEN "Tombstone"
                                          ELSE DefaultStatus,
                               !.reason = p.reason,
                               !.pc = "store_data"]]
    /\ UNCHANGED <<storeVars, reports, cfgVars, dispVars, dispatched, scanVars>>
ReceiveBundle(c, bytes) ==
    /\ main.grpc
    /\ calls[c].pc = "idle"
    /\ calls' = [calls EXCEPT ![c] = ReceiveBegun(bytes)]
    /\ UNCHANGED <<storeVars, reports, cfgVars, dispVars, dispatched, scanVars>>

\* Store::store_data: hash the bytes and write them to the bundle store.
StoreData(c) ==
    /\ calls[c].pc = "store_data"
    /\ nextName <= MaxNames
    /\ blobs' = BlobStore(nextName, calls[c].data)
    /\ nextName' = nextName + 1
    /\ calls' = [calls EXCEPT ![c].name = nextName,
                              ![c].hash = Hash(calls[c].data),
                              ![c].written = calls[c].data,
                              ![c].pc = IF calls[c].op = "store"
                                        THEN "store_metadata" ELSE "report"]
    /\ UNCHANGED <<rows, unconfirmed, reports, cfgVars, dispVars, dispatched, scanVars>>

\* receive_inner, first await: the reception report, before the metadata
\* is stored.
ReceiveInnerReport(c) ==
    /\ calls[c].pc = "report"
    /\ reports' = reports (+)
         ReportIf("received", calls[c].id, "NoAdditionalInformation")
    /\ calls' = [calls EXCEPT ![c].pc = "store_metadata"]
    /\ UNCHANGED <<storeVars, cfgVars, dispVars, dispatched, scanVars>>

CallRow(c) ==
    [id |-> calls[c].id, status |-> calls[c].status,
     storage_name |-> calls[c].name, hash |-> calls[c].hash]

\* receive_inner, second await: store_metadata.
ReceiveInnerStoreMetadata(c) ==
    /\ calls[c].op = "receive_bundle"
    /\ calls[c].pc = "store_metadata"
    /\ rows' = MetaStore(CallRow(c))
    /\ calls' = [calls EXCEPT ![c].pc =
                    IF ~MetaHas(calls[c].id) THEN "check"
                    ELSE IF calls[c].name # NoName THEN "delete_dup"
                    ELSE "done",
                 ![c].result =
                    IF ~MetaHas(calls[c].id) THEN "stored" ELSE "duplicate"]
    /\ UNCHANGED <<blobs, unconfirmed, nextName, reports, cfgVars, dispVars, dispatched,
                   scanVars>>

\* receive_inner on a duplicate: the data just stored is deleted.
ReceiveInnerDeleteDup(c) ==
    /\ calls[c].op = "receive_bundle"
    /\ calls[c].pc = "delete_dup"
    /\ blobs' = BlobRemove(calls[c].name)
    /\ calls' = [calls EXCEPT ![c].pc = "done"]
    /\ UNCHANGED <<rows, unconfirmed, nextName, reports, cfgVars, dispVars, dispatched,
                   scanVars>>

\* receive_inner on a new bundle: check_bundle.
ReceiveInnerCheck(c) ==
    /\ calls[c].pc = "check"
    /\ CheckBundle(calls[c].id, calls[c].name, calls[c].reason)
    /\ calls' = [calls EXCEPT ![c].pc = "done"]
    /\ UNCHANGED <<unconfirmed, nextName, cfgVars, dispVars, scanVars>>

\* Store::store(bundle, data, status, received_at) as local_dispatch and
\* dispatch_status_report call it: the data are the builder's output.
StoreBegin(c, id) ==
    /\ main.grpc
    /\ calls[c].pc = "idle"
    /\ calls' = [calls EXCEPT ![c] =
         [IdleCall EXCEPT !.op = "store", !.id = id,
                          !.data = [id |-> id, form |-> "canonical"],
                          !.status = "DispatchPending",
                          !.pc = "store_data"]]
    /\ UNCHANGED <<storeVars, reports, cfgVars, dispVars, dispatched, scanVars>>

\* Store::store: the write to the metadata store.
StoreStoreMetadata(c) ==
    /\ calls[c].op = "store"
    /\ calls[c].pc = "store_metadata"
    /\ rows' = MetaStore(CallRow(c))
    /\ calls' = [calls EXCEPT ![c].pc =
                    IF ~MetaHas(calls[c].id) THEN "done" ELSE "remove_dup",
                 ![c].result =
                    IF ~MetaHas(calls[c].id) THEN "stored" ELSE "duplicate"]
    /\ UNCHANGED <<blobs, unconfirmed, nextName, reports, cfgVars, dispVars, dispatched,
                   scanVars>>

\* Store::store on Ok(false): "We have a duplicate, remove the duplicate
\* from the bundle store", then Ok(None).
StoreRemoveDup_Keep(c) ==
    /\ calls[c].op = "store"
    /\ calls[c].pc = "remove_dup"
    /\ calls' = [calls EXCEPT ![c].pc = "done"]
    /\ UNCHANGED <<storeVars, reports, cfgVars, dispVars, dispatched, scanVars>>
StoreRemoveDup(c) ==
    /\ calls[c].op = "store"
    /\ calls[c].pc = "remove_dup"
    /\ blobs' = BlobRemove(calls[c].name)
    /\ calls' = [calls EXCEPT ![c].pc = "done"]
    /\ UNCHANGED <<rows, unconfirmed, nextName, reports, cfgVars, dispVars, dispatched,
                   scanVars>>

CallStepIn(S) ==
    \/ \E c \in S, bytes \in Bytes : ReceiveBundle(c, bytes)
    \/ \E c \in S, id \in Ids : StoreBegin(c, id)
    \/ \E c \in S : StoreData(c)
    \/ \E c \in S : ReceiveInnerReport(c)
    \/ \E c \in S : ReceiveInnerStoreMetadata(c)
    \/ \E c \in S : ReceiveInnerDeleteDup(c)
    \/ \E c \in S : ReceiveInnerCheck(c)
    \/ \E c \in S : StoreStoreMetadata(c)
    \/ \E c \in S : StoreRemoveDup(c)

\* ------------------------------------------------- the serving agent
\* An agent that started on empty stores: the scan has returned, the gRPC
\* services run, and calls arrive concurrently.
MainServing ==
    [pc |-> "serving", grpc |-> TRUE, poller |-> TRUE, run |-> 1,
     todo |-> {}, streamed |-> {}, orphans |-> {}, scanCancelled |-> FALSE,
     phases |-> 2]
NoTask ==
    [pc |-> "none", name |-> NoName, hash |-> NoHash, id |-> NoId,
     reason |-> NoReason, kind |-> "none", written |-> NoData,
     row |-> NoRow, decision |-> "none"]
NoSnap ==
    [rows |-> {}, blobs |-> [n \in Names |-> NoData], reports |-> EmptyBag]
AllKinds == {"received", "forwarded", "delivered", "deleted"}

InitCfg ==
    /\ statusReports \in BOOLEAN
    /\ clock = NoClock
    /\ queued = NoQueued
    /\ clas = NoClas
    /\ flags \in [Ids -> {{}, AllKinds}]
    /\ expired = {"b2"}

InitStore ==
    /\ blobs = [n \in Names |-> NoData]
    /\ rows = {}
    /\ unconfirmed = {}
    /\ nextName = 1
    /\ reports = EmptyBag
    /\ InitCfg
    /\ dispatched = {}
    /\ calls = [c \in Calls |-> IdleCall]
    /\ main = MainServing
    /\ tasks = [n \in Names |-> NoTask]
    /\ cancelled = FALSE
    /\ snap = NoSnap
    /\ DispatcherIdle

NextStore == CallStepIn(Calls)
SpecStore == InitStore /\ [][NextStore]_vars

\* --------------------------------------------------- the startup scan
InitNames == 1..InitBlobs
Running ==
    {n \in Names : tasks[n].pc \notin {"none", "done"}}

\* main(): the agent starts; cache/store initialisation begins by listing
\* the stored bundles into a Vec.  A cancellation stops the listing early.
ListStoredBundles ==
    /\ main.pc = "init"
    /\ \E listed \in SUBSET StoredNames :
         /\ (~cancelled => listed = StoredNames)
         /\ main' = [main EXCEPT !.pc = "bundle_check", !.todo = listed]
    /\ UNCHANGED <<storeVars, reports, cfgVars, dispVars, dispatched, calls, tasks,
                   cancelled, snap>>

\* bundle_storage_check: a permit is acquired and restart_bundle spawned
\* for the next listed name.
SpawnRestart(n) ==
    /\ main.pc = "bundle_check"
    /\ n \in main.todo
    /\ Cardinality(Running) < Parallelism
    /\ main' = [main EXCEPT !.todo = @ \ {n}]
    /\ tasks' = [tasks EXCEPT ![n] = [NoTask EXCEPT !.pc = "load", !.name = n]]
    /\ UNCHANGED <<storeVars, reports, cfgVars, dispVars, dispatched, calls, cancelled,
                   snap>>

\* bundle_storage_check: select! takes the cancelled() branch, the inner
\* loop breaks and the listed name is passed over.
SkipCancelled(n) ==
    /\ main.pc = "bundle_check"
    /\ n \in main.todo
    /\ cancelled
    /\ main' = [main EXCEPT !.todo = @ \ {n}]
    /\ UNCHANGED <<storeVars, reports, cfgVars, dispVars, dispatched, calls, tasks,
                   cancelled, snap>>

\* restart_bundle: load and parse the blob; junk is removed; a Rewritten
\* bundle is stored under a new name in canonical form and the old blob
\* removed.
RestartParse_KeepBytes(n) ==
    LET d == BlobLoad(n)
        p == Parse(d) IN
    /\ tasks[n].pc = "load"
    /\ IF d = NoData
       THEN /\ tasks' = [tasks EXCEPT ![n].pc = "done", ![n].decision = "gone"]
            /\ UNCHANGED <<blobs, nextName>>
       ELSE IF p.kind = "Err"
       THEN /\ blobs' = BlobRemove(n)
            /\ tasks' = [tasks EXCEPT ![n].pc = "done", ![n].kind = "Err",
                                      ![n].decision = "junk"]
            /\ UNCHANGED nextName
       ELSE IF p.kind = "Rewritten"
       THEN /\ nextName <= MaxNames
            /\ blobs' = [blobs EXCEPT ![nextName] = d, ![n] = NoData]
            /\ nextName' = nextName + 1
            /\ tasks' = [tasks EXCEPT ![n].pc = "confirm", ![n].id = p.id,
                                      ![n].kind = p.kind,
                                      ![n].name = nextName,
                                      ![n].hash = Hash(d),
                                      ![n].written = d]
       ELSE /\ tasks' = [tasks EXCEPT ![n].pc = "confirm", ![n].id = p.id,
                                      ![n].kind = p.kind,
                                      ![n].reason = p.reason,
                                      ![n].hash = Hash(d)]
            /\ UNCHANGED <<blobs, nextName>>
    /\ UNCHANGED <<rows, unconfirmed, reports, cfgVars, dispVars, dispatched, calls,
                   main, cancelled, snap>>
RestartParse(n) ==
    LET d == BlobLoad(n)
        p == Parse(d) IN
    /\ tasks[n].pc = "load"
    /\ IF d = NoData
       THEN /\ tasks' = [tasks EXCEPT ![n].pc = "done", ![n].decision = "gone"]
            /\ UNCHANGED <<blobs, nextName>>
       ELSE IF p.kind = "Err"
       THEN /\ blobs' = BlobRemove(n)
            /\ tasks' = [tasks EXCEPT ![n].pc = "done", ![n].kind = "Err",
                                      ![n].decision = "junk"]
            /\ UNCHANGED nextName
       ELSE IF p.kind = "Rewritten"
       THEN /\ nextName <= MaxNames
            /\ blobs' = [blobs EXCEPT ![nextName] = p.data, ![n] = NoData]
            /\ nextName' = nextName + 1
            /\ tasks' = [tasks EXCEPT ![n].pc = "confirm", ![n].id = p.id,
                                      ![n].kind = p.kind,
                                      ![n].name = nextName,
                                      ![n].hash = Hash(p.data),
                                      ![n].written = p.data]
       ELSE /\ tasks' = [tasks EXCEPT ![n].pc = "confirm", ![n].id = p.id,
                                      ![n].kind = p.kind,
                                      ![n].reason = p.reason,
                                      ![n].hash = Hash(d)]
            /\ UNCHANGED <<blobs, nextName>>
    /\ UNCHANGED <<rows, unconfirmed, reports, cfgVars, dispVars, dispatched, calls,
                   main, cancelled, snap>>

\* The comparison restart_bundle makes once confirm_exists returned a row.
RowMatches_NameOnly(row, name, hash) ==
    /\ row.status # "Tombstone"
    /\ row.storage_name = name
RowMatches(row, name, hash) ==
    /\ row.status # "Tombstone"
    /\ row.storage_name = name
    /\ row.hash = hash

\* restart_bundle: confirm_exists(&bundle.id) marks the row of the BundleId
\* confirmed and returns it; the task then decides what to do with the blob.
RestartConfirm(n) ==
    LET t == tasks[n]
        row == MetaLoad(t.id) IN
    /\ t.pc = "confirm"
    /\ unconfirmed' = ConfirmExists(t.id)
    /\ tasks' = [tasks EXCEPT
         ![n].row = row,
         ![n].pc = IF row = NoRow THEN "ingress_report"
                   ELSE IF RowMatches(row, t.name, t.hash) THEN "check"
                   ELSE "drop",
         ![n].decision = IF row = NoRow THEN "orphan"
                         ELSE IF RowMatches(row, t.name, t.hash) THEN "keep"
                         ELSE "drop"]
    /\ UNCHANGED <<blobs, rows, nextName, reports, cfgVars, dispVars, dispatched, calls,
                   main, cancelled, snap>>

\* restart_bundle: "Remove spurious duplicate".
RestartDrop(n) ==
    /\ tasks[n].pc = "drop"
    /\ blobs' = BlobRemove(tasks[n].name)
    /\ tasks' = [tasks EXCEPT ![n].pc = "done"]
    /\ UNCHANGED <<rows, unconfirmed, nextName, reports, cfgVars, dispVars, dispatched,
                   calls, main, cancelled, snap>>

\* restart_bundle: the row matched, the bundle goes through check_bundle.
RestartCheck(n) ==
    /\ tasks[n].pc = "check"
    /\ CheckBundle(tasks[n].id, tasks[n].name, tasks[n].reason)
    /\ tasks' = [tasks EXCEPT ![n].pc = "done"]
    /\ UNCHANGED <<unconfirmed, nextName, cfgVars, dispVars, calls, main, cancelled, snap>>

\* restart_bundle without a row: ingress_bundle, which like receive_inner
\* first reports the reception ...
IngressReport(n) ==
    /\ tasks[n].pc = "ingress_report"
    /\ reports' = reports (+)
         ReportIf("received", tasks[n].id, "NoAdditionalInformation")
    /\ tasks' = [tasks EXCEPT ![n].pc = "ingress_store"]
    /\ UNCHANGED <<storeVars, cfgVars, dispVars, dispatched, calls, main, cancelled, snap>>

TaskRow(n) ==
    [id |-> tasks[n].id,
     status |-> IF tasks[n].reason # NoReason THEN "Tombstone" ELSE DefaultStatus,
     storage_name |-> tasks[n].name, hash |-> tasks[n].hash]

\* ... then stores the metadata ...
IngressStoreMetadata(n) ==
    /\ tasks[n].pc = "ingress_store"
    /\ rows' = MetaStore(TaskRow(n))
    /\ tasks' = [tasks EXCEPT ![n].pc =
                    IF MetaHas(tasks[n].id) THEN "ingress_dup" ELSE "ingress_check"]
    /\ UNCHANGED <<blobs, unconfirmed, nextName, reports, cfgVars, dispVars, dispatched,
                   calls, main, cancelled, snap>>

\* ... and deletes the data when the row already existed ...
IngressDeleteDup(n) ==
    /\ tasks[n].pc = "ingress_dup"
    /\ blobs' = BlobRemove(tasks[n].name)
    /\ tasks' = [tasks EXCEPT ![n].pc = "done"]
    /\ UNCHANGED <<rows, unconfirmed, nextName, reports, cfgVars, dispVars, dispatched,
                   calls, main, cancelled, snap>>

\* ... or checks the bundle it has just stored.
IngressCheck(n) ==
    /\ tasks[n].pc = "ingress_check"
    /\ CheckBundle(tasks[n].id, tasks[n].name, tasks[n].reason)
    /\ tasks' = [tasks EXCEPT ![n].pc = "done"]
    /\ UNCHANGED <<unconfirmed, nextName, cfgVars, dispVars, calls, main, cancelled, snap>>

RestartStep ==
    \/ \E n \in Names : SpawnRestart(n)
    \/ \E n \in Names : RestartParse(n)
    \/ \E n \in Names : RestartConfirm(n)
    \/ \E n \in Names : RestartDrop(n)
    \/ \E n \in Names : RestartCheck(n)
    \/ \E n \in Names : IngressReport(n)
    \/ \E n \in Names : IngressStoreMetadata(n)
    \/ \E n \in Names : IngressDeleteDup(n)
    \/ \E n \in Names : IngressCheck(n)

\* bundle_storage_check returns once every listed name was handled and
\* every task joined; Store::start then tests the token and begins
\* metadata_storage_check, where get_unconfirmed_bundles streams the rows
\* no blob has confirmed.
BundleCheckDone ==
    /\ main.pc = "bundle_check"
    /\ main.todo = {}
    /\ Running = {}
    /\ main' = IF cancelled
               THEN [main EXCEPT !.pc = "returned"]
               ELSE [main EXCEPT !.pc = "metadata_check", !.phases = 1,
                                 !.streamed = unconfirmed,
                                 !.orphans = {r \in rows : r.id \in unconfirmed}]
    /\ UNCHANGED <<storeVars, reports, cfgVars, dispVars, dispatched, calls, tasks,
                   cancelled, snap>>

\* metadata_storage_check, one received row: Tombstones are ignored, any
\* other row is reported deleted (DepletedStorage) and removed.
MetadataCheckOne_KeepRow(id) ==
    LET row == MetaLoad(id) IN
    /\ main.pc = "metadata_check"
    /\ id \in main.streamed
    /\ main' = [main EXCEPT !.streamed = @ \ {id}]
    /\ IF row.status = "Tombstone"
       THEN UNCHANGED <<rows, unconfirmed, reports>>
       ELSE /\ reports' = reports (+) ReportIf("deleted", id, "DepletedStorage")
            /\ UNCHANGED <<rows, unconfirmed>>
    /\ UNCHANGED <<blobs, nextName, cfgVars, dispVars, dispatched, calls, tasks,
                   cancelled, snap>>
MetadataCheckOne(id) ==
    LET row == MetaLoad(id) IN
    /\ main.pc = "metadata_check"
    /\ id \in main.streamed
    /\ main' = [main EXCEPT !.streamed = @ \ {id}]
    /\ IF row.status = "Tombstone"
       THEN UNCHANGED <<rows, unconfirmed, reports>>
       ELSE /\ reports' = reports (+) ReportIf("deleted", id, "DepletedStorage")
            /\ rows' = MetaRemove(id)
            /\ unconfirmed' = unconfirmed \ {id}
    /\ UNCHANGED <<blobs, nextName, cfgVars, dispVars, dispatched, calls, tasks,
                   cancelled, snap>>

\* metadata_storage_check: select! takes the cancelled() branch.
MetadataCheckCancelled ==
    /\ main.pc = "metadata_check"
    /\ cancelled
    /\ main' = [main EXCEPT !.pc = "returned"]
    /\ UNCHANGED <<storeVars, reports, cfgVars, dispVars, dispatched, calls, tasks,
                   cancelled, snap>>

\* metadata_storage_check has drained the stream; Store::start tests the
\* token once more and spawns the check_waiting poller.
MetadataCheckDone ==
    /\ main.pc = "metadata_check"
    /\ main.streamed = {}
    /\ main' = IF cancelled
               THEN [main EXCEPT !.pc = "returned"]
               ELSE [main EXCEPT !.pc = "returned", !.phases = 2,
                                 !.poller = TRUE]
    /\ UNCHANGED <<storeVars, reports, cfgVars, dispVars, dispatched, calls, tasks,
                   cancelled, snap>>

\* main(): after the initialisation returned, "Init gRPC services" unless
\* the token is cancelled.
MainServices_Unchecked ==
    /\ main.pc = "returned"
    /\ main' = [main EXCEPT !.pc = "serving", !.grpc = TRUE]
    /\ UNCHANGED <<storeVars, reports, cfgVars, dispVars, dispatched, calls, tasks,
                   cancelled, snap>>
MainServices ==
    /\ main.pc = "returned"
    /\ main' = IF cancelled
               THEN [main EXCEPT !.pc = "stopped"]
               ELSE [main EXCEPT !.pc = "serving", !.grpc = TRUE]
    /\ UNCHANGED <<storeVars, reports, cfgVars, dispVars, dispatched, calls, tasks,
                   cancelled, snap>>

\* listen_for_cancel: a signal cancels the token, at any time.
Cancel ==
    /\ ~cancelled
    /\ cancelled' = TRUE
    /\ main' = [main EXCEPT !.scanCancelled =
                  @ \/ main.pc \in {"init", "bundle_check", "metadata_check"}]
    /\ UNCHANGED <<storeVars, reports, cfgVars, dispVars, dispatched, calls, tasks, snap>>

MainStep ==
    \/ ListStoredBundles
    \/ BundleCheckDone
    \/ \E id \in Ids : MetadataCheckOne(id)
    \/ MetadataCheckDone
    \/ MainServices

CancelStep ==
    \/ Cancel
    \/ \E n \in Names : SkipCancelled(n)
    \/ MetadataCheckCancelled

\* The stores a restarting agent can find.
InitBytes ==
    [id : {"b1"}, form : Forms] \cup {[id |-> "b2", form |-> "canonical"], Junk}
LiveRow(id, name, form) ==
    [id |-> id, status |-> "ForwardPending", storage_name |-> name,
     hash |-> Hash([id |-> id, form |-> form])]
TombstoneRow(id) ==
    [id |-> id, status |-> "Tombstone", storage_name |-> NoName, hash |-> NoHash]
RowOptions(id) ==
    IF id = "b1"
    THEN {NoRow, TombstoneRow(id)} \cup
         {LiveRow(id, n, f) : n \in InitNames, f \in {"canonical", "noncanonical"}}
    ELSE {NoRow, TombstoneRow(id), LiveRow(id, InitBlobs, "canonical")}
InitRows ==
    {{f[i] : i \in Ids} \ {NoRow} : f \in {g \in [Ids -> UNION {RowOptions(i) : i \in Ids}] :
                                              \A i \in Ids : g[i] \in RowOptions(i)}}
MainInit ==
    [pc |-> "init", grpc |-> FALSE, poller |-> FALSE, run |-> 1,
     todo |-> {}, streamed |-> {}, orphans |-> {}, scanCancelled |-> FALSE,
     phases |-> 0]

InitScan ==
    /\ blobs \in {b \in [Names -> InitBytes \cup {NoData}] :
                     \A n \in Names \ InitNames : b[n] = NoData}
    /\ rows \in InitRows
    /\ unconfirmed = {r.id : r \in rows}
    /\ nextName = InitBlobs + 1
    /\ reports = EmptyBag
    /\ statusReports \in BOOLEAN
    /\ clock = NoClock
    /\ queued = NoQueued
    /\ clas = NoClas
    /\ flags \in {[i \in Ids |-> IF i = "b1" THEN k ELSE AllKinds] : k \in {{}, AllKinds}}
    /\ expired = {"b2"}
    /\ dispatched = {}
    /\ calls = [c \in Calls |-> IdleCall]
    /\ main = MainInit
    /\ tasks = [n \in Names |-> NoTask]
    /\ cancelled = FALSE
    /\ snap = NoSnap
    /\ DispatcherIdle

NextScan ==
    \/ MainStep
    \/ RestartStep
    \/ CancelStep
    \/ CallStepIn({1})
SpecScan == InitScan /\ [][NextScan]_vars

\* The agent is started again on the stores a complete scan left: every
\* row is marked unconfirmed and the scan runs once more.
Restart ==
    /\ main.run = 1
    /\ main.phases = 2
    /\ main.pc \in {"returned", "serving"}
    /\ snap' = [rows |-> rows, blobs |-> blobs, reports |-> reports]
    /\ unconfirmed' = {r.id : r \in rows}
    /\ main' = [MainInit EXCEPT !.run = 2]
    /\ tasks' = [n \in Names |-> NoTask]
    /\ dispatched' = {}
    /\ UNCHANGED <<blobs, rows, nextName, reports, cfgVars, dispVars, calls, cancelled>>

NextRescan ==
    \/ MainStep
    \/ RestartStep
    \/ Restart
SpecRescan == InitScan /\ [][NextRescan]_vars

\* ------------------------------------------------------------ forwarding
Min2(a, b) ==
    IF a <= b THEN a ELSE b
\* bundle.expiry() on the model's clock, and the latest value "now + 1
\* minute" takes while the bundle lives.
ExpiryTime == MaxTime
DefaultAckTime == MaxTime + 1

\* What fib.find can answer: Err(reason), or the CLAs to try in order with
\* an optional deadline.  "gone" is an endpoint the CLA registry no longer
\* knows.
ClaHandles == {"cla1", "cla2", "gone"}
ClaLists ==
    UNION {[1..n -> ClaHandles] : n \in 0..MaxClas}
FibAnswers ==
    [kind : {"Err"}, reason : {NoReason, "NoKnownRouteToDestinationFromHere"},
     clas : {<<>>}, until : {NoTime}]
    \cup [kind : {"Action"}, reason : {NoReason}, clas : ClaLists,
          until : {NoTime} \cup Times]
\* What a CLA can answer to forward_bundle; with a Pending that carries no
\* deadline, now1 is "now + 1 minute" at the time of the answer.
ClaOutcomes ==
    [kind : {"Sent", "Err"}, handle : {0}, until : {NoTime}, now1 : {NoTime}]
    \cup [kind : {"Pending"}, handle : {1},
          until : Times \cup {DefaultAckTime}, now1 : {NoTime}]
    \cup [kind : {"Pending"}, handle : {1},
          until : {NoTime}, now1 : Times \cup {DefaultAckTime}]
    \cup [kind : {"Congested"}, handle : {0}, until : Times, now1 : {NoTime}]

\* forward_bundle returns: its locals other than the counters go out of scope.
Returned(k, result, reason) ==
    [dtasks[k] EXCEPT !.pc = "returned", !.result = result, !.reason = reason,
                      !.clas = <<>>, !.until = NoTime, !.congestion = NoTime,
                      !.dest = "none"]

\* forward_bundle, before the loop.
ForwardBegin(k) ==
    /\ dtasks[k].pc = "forward"
    /\ dtasks' = [dtasks EXCEPT ![k] =
         IF ~config.forwarding
         THEN [Returned(k, "Drop", "DestinationEndpointIDUnavailable") EXCEPT
                  !.list = <<>>, !.tried = <<>>, !.handed = 0,
                  !.offer = NoTime, !.sleeps = 0]
         ELSE [dtasks[k] EXCEPT !.pc = "loop", !.previous = FALSE,
                                !.retries = 0, !.dest = "destination",
                                !.list = <<>>, !.tried = <<>>, !.handed = 0,
                                !.offer = NoTime, !.sleeps = 0]]
    /\ UNCHANGED <<storeVars, reports, cfgVars, dispatched, calls, scanVars,
                   config, ack>>

\* forward_bundle, top of the loop: the expiry check and the FIB lookup.
ForwardLookup(k, answer) ==
    LET t == dtasks[k] IN
    /\ t.pc = "loop"
    /\ t.iters < 2 * MaxDelay + 4
    /\ dtasks' = [dtasks EXCEPT ![k] =
         IF t.id \in expired
         THEN [Returned(k, "Drop", "LifetimeExpired") EXCEPT !.iters = @ + 1]
         ELSE IF answer.kind = "Err"
         THEN [Returned(k, "Drop", answer.reason) EXCEPT !.iters = @ + 1]
         ELSE IF answer.clas = <<>> /\ answer.until # NoTime
         THEN [t EXCEPT !.pc = "wait", !.until = answer.until, !.iters = @ + 1]
         ELSE [t EXCEPT !.pc = "clas", !.clas = answer.clas,
                        !.until = answer.until, !.congestion = NoTime,
                        !.iters = @ + 1, !.list = answer.clas,
                        !.tried = <<>>]]
    /\ UNCHANGED <<storeVars, reports, cfgVars, dispatched, calls, scanVars,
                   config, ack>>

\* "Don't wait longer than expiry": the deadline recorded with
\* ForwardAckPending.
AckOffer(outcome) ==
    IF outcome.until = NoTime THEN outcome.now1 ELSE outcome.until
AckUntil_NoClamp(outcome) ==
    AckOffer(outcome)
AckUntil(outcome) ==
    Min2(AckOffer(outcome), ExpiryTime)

\* After Pending the status is ForwardAckPending and forward_bundle returns
\* Continue; `next` is the task had it gone on to the next CLA.
PendingReturns_TriesNext(k, next) ==
    [next EXCEPT !.mem = "ForwardAckPending", !.handed = @ + 1]
PendingReturns(k, next) ==
    [Returned(k, "Continue", NoReason) EXCEPT
        !.mem = "ForwardAckPending", !.handed = next.handed + 1,
        !.offer = next.offer, !.tried = next.tried]

\* forward_bundle, one CLA of the action: the registry lookup, the data
\* load and the CLA's answer.
ForwardCla(k, outcome) ==
    LET t == dtasks[k]
        row == MetaLoad(t.id)
        next == [t EXCEPT !.clas = Tail(@), !.tried = Append(@, Head(t.clas))] IN
    /\ t.pc = "clas"
    /\ t.clas # <<>>
    /\ IF Head(t.clas) = "gone"
       THEN /\ dtasks' = [dtasks EXCEPT ![k] = next]
            /\ UNCHANGED <<rows, reports, ack>>
       ELSE IF BlobLoad(row.storage_name) = NoData
       THEN /\ dtasks' = [dtasks EXCEPT ![k] = Returned(k, "Done", NoReason)]
            /\ UNCHANGED <<rows, reports, ack>>
       ELSE CASE outcome.kind = "Sent" ->
                   /\ reports' = reports (+) ReportIf("forwarded", t.id,
                                                 "NoAdditionalInformation")
                   /\ dtasks' = [dtasks EXCEPT ![k] =
                        [Returned(k, "Drop", NoReason) EXCEPT
                            !.handed = @ + 1, !.tried = next.tried]]
                   /\ UNCHANGED <<rows, ack>>
              [] outcome.kind = "Pending" ->
                   /\ rows' = MetaSetStatus(t.id, "ForwardAckPending")
                   /\ ack' = [ack EXCEPT ![t.id] =
                        [handle |-> outcome.handle,
                         until |-> AckUntil(outcome)]]
                   /\ dtasks' = [dtasks EXCEPT ![k] =
                        PendingReturns(k, [next EXCEPT !.offer = AckOffer(outcome)])]
                   /\ UNCHANGED reports
              [] outcome.kind = "Congested" ->
                   /\ dtasks' = [dtasks EXCEPT ![k] =
                        [next EXCEPT !.congestion =
                            IF @ = NoTime THEN outcome.until
                            ELSE Min2(@, outcome.until)]]
                   /\ UNCHANGED <<rows, reports, ack>>
              [] OTHER ->
                   /\ dtasks' = [dtasks EXCEPT ![k] = next]
                   /\ UNCHANGED <<rows, reports, ack>>
    /\ UNCHANGED <<blobs, unconfirmed, nextName, cfgVars, dispatched, calls,
                   scanVars, config>>

\* The pass over the FIB's list is over: unless the call returns, what it
\* tried is no longer recorded.
PassOver(t) ==
    [t EXCEPT !.list = <<>>, !.tried = <<>>]

\* forward_bundle, "By the time we get here, we have tried every CLA".
ForwardTried_NoCount(k) ==
    LET t == PassOver(dtasks[k]) IN
    /\ t.pc = "clas"
    /\ t.clas = <<>>
    /\ dtasks' = [dtasks EXCEPT ![k] =
         IF t.congestion # NoTime
         THEN [t EXCEPT !.pc = "wait",
                        !.until = IF t.until # NoTime
                                  THEN Min2(t.until, t.congestion)
                                  ELSE t.congestion]
         ELSE IF t.retries >= config.max_forwarding_delay
         THEN IF t.previous
              THEN Returned(k, "Drop", "NoKnownRouteToDestinationFromHere")
              ELSE [t EXCEPT !.pc = "loop", !.dest = "previous_node",
                             !.retries = 0, !.previous = TRUE]
         ELSE [t EXCEPT !.pc = "sleep"]]
    /\ UNCHANGED <<storeVars, reports, cfgVars, dispatched, calls, scanVars,
                   config, ack>>
ForwardTried_Late(k) ==
    LET t == PassOver(dtasks[k]) IN
    /\ t.pc = "clas"
    /\ t.clas = <<>>
    /\ dtasks' = [dtasks EXCEPT ![k] =
         IF t.congestion # NoTime
         THEN [t EXCEPT !.pc = "wait",
                        !.until = IF t.until # NoTime
                                  THEN Min2(t.until, t.congestion)
                                  ELSE t.congestion]
         ELSE IF t.retries > config.max_forwarding_delay
         THEN IF t.previous
              THEN Returned(k, "Drop", "NoKnownRouteToDestinationFromHere")
              ELSE [t EXCEPT !.pc = "loop", !.dest = "previous_node",
                             !.retries = 0, !.previous = TRUE]
         ELSE [t EXCEPT !.pc = "sleep", !.retries = @ + 1]]
    /\ UNCHANGED <<storeVars, reports, cfgVars, dispatched, calls, scanVars,
                   config, ack>>
ForwardTried_CongestionCounts(k) ==
    LET t == PassOver(dtasks[k]) IN
    /\ t.pc = "clas"
    /\ t.clas = <<>>
    /\ dtasks' = [dtasks EXCEPT ![k] =
         IF t.congestion # NoTime /\ t.retries < config.max_forwarding_delay
         THEN [t EXCEPT !.pc = "wait",
                        !.until = IF t.until # NoTime
                                  THEN Min2(t.until, t.congestion)
                                  ELSE t.congestion]
         ELSE IF t.retries >= config.max_forwarding_delay
         THEN IF t.previous
              THEN Returned(k, "Drop", "NoKnownRouteToDestinationFromHere")
              ELSE [t EXCEPT !.pc = "loop", !.dest = "previous_node",
                             !.retries = 0, !.previous = TRUE]
         ELSE [t EXCEPT !.pc = "sleep", !.retries = @ + 1]]
    /\ UNCHANGED <<storeVars, reports, cfgVars, dispatched, calls, scanVars,
                   config, ack>>
ForwardTried(k) ==
    LET t == PassOver(dtasks[k]) IN
    /\ t.pc = "clas"
    /\ t.clas = <<>>
    /\ dtasks' = [dtasks EXCEPT ![k] =
         IF t.congestion # NoTime
         THEN [t EXCEPT !.pc = "wait",
                        !.until = IF t.until # NoTime
                                  THEN Min2(t.until, t.congestion)
                                  ELSE t.congestion]
         ELSE IF t.retries >= config.max_forwarding_delay
         THEN IF t.previous
              THEN Returned(k, "Drop", "NoKnownRouteToDestinationFromHere")
              ELSE [t EXCEPT !.pc = "loop", !.dest = "previous_node",
                             !.retries = 0, !.previous = TRUE]
         ELSE [t EXCEPT !.pc = "sleep", !.retries = @ + 1]]
    /\ UNCHANGED <<storeVars, reports, cfgVars, dispatched, calls, scanVars,
                   config, ack>>

\* forward_bundle, the cancellable one-second sleep before the next lookup.
ForwardSleep(k) ==
    /\ dtasks[k].pc = "sleep"
    /\ dtasks' = [dtasks EXCEPT ![k] =
         IF cancelled THEN Returned(k, "Done", NoReason)
         ELSE [dtasks[k] EXCEPT !.pc = "loop", !.sleeps = @ + 1]]
    /\ UNCHANGED <<storeVars, reports, cfgVars, dispatched, calls, scanVars,
                   config, ack>>

\* bundle_wait(bundle, until): a far deadline is written as Waiting(until)
\* and left to the poller; a near one is slept on in-process, cancellably.
BundleWait(k, far) ==
    LET t == dtasks[k] IN
    /\ t.pc = "wait"
    /\ IF far
       THEN /\ rows' = MetaSetStatus(t.id, "Waiting")
            /\ ack' = [ack EXCEPT ![t.id] = [handle |-> 0, until |-> t.until]]
            /\ dtasks' = [dtasks EXCEPT ![k] =
                 [Returned(k, "Wait", NoReason) EXCEPT !.mem = "Waiting"]]
       ELSE /\ dtasks' = [dtasks EXCEPT ![k] =
                 Returned(k, IF cancelled THEN "Done" ELSE "Continue", NoReason)]
            /\ UNCHANGED <<rows, ack>>
    /\ UNCHANGED <<blobs, unconfirmed, nextName, reports, cfgVars, dispatched,
                   calls, scanVars, config>>

ForwardStepIn(answers, outcomes) ==
    \/ \E k \in DTasks : ForwardBegin(k)
    \/ \E k \in DTasks, answer \in answers : ForwardLookup(k, answer)
    \/ \E k \in DTasks, outcome \in outcomes : ForwardCla(k, outcome)
    \/ \E k \in DTasks : ForwardTried(k)
    \/ \E k \in DTasks : ForwardSleep(k)
    \/ \E k \in DTasks, far \in BOOLEAN : BundleWait(k, far)
ForwardStep ==
    ForwardStepIn(FibAnswers, ClaOutcomes)

\* Time passes: a bundle's lifetime runs out.
Expire(id) ==
    /\ id \notin expired
    /\ expired' = expired \cup {id}
    /\ UNCHANGED <<storeVars, reports, clas, statusReports, flags, clock, queued, dispatched,
                   calls, scanVars, dispVars>>

\* The token is cancelled while the dispatcher runs.
Shutdown ==
    /\ ~cancelled
    /\ cancelled' = TRUE
    /\ UNCHANGED <<storeVars, reports, cfgVars, dispatched, calls, main, tasks,
                   snap, dispVars>>

\* One bundle, stored and ForwardPending, enters forward_bundle under some
\* configuration.
InitForward ==
    /\ blobs = [n \in Names |-> IF n = 1 THEN [id |-> "b1", form |-> "canonical"]
                                ELSE NoData]
    /\ rows = {LiveRow("b1", 1, "canonical")}
    /\ unconfirmed = {}
    /\ nextName = 2
    /\ reports = EmptyBag
    /\ statusReports \in BOOLEAN
    /\ clock = NoClock
    /\ queued = NoQueued
    /\ clas = NoClas
    /\ flags = [i \in Ids |-> AllKinds]
    /\ expired = {}
    /\ dispatched = {}
    /\ calls = [c \in Calls |-> IdleCall]
    /\ main = MainServing
    /\ tasks = [n \in Names |-> NoTask]
    /\ cancelled = FALSE
    /\ snap = NoSnap
    /\ config \in [max_forwarding_delay : 0..MaxDelay, forwarding : BOOLEAN]
    /\ ack = [i \in Ids |-> NoAck]
    /\ dtasks = [k \in DTasks |->
         IF k = 1 THEN [NoDTask EXCEPT !.op = "forward_bundle", !.pc = "forward",
                                       !.id = "b1", !.mem = "ForwardPending"]
         ELSE NoDTask]

NextForward ==
    \/ ForwardStep
    \/ \E id \in {"b1"} : Expire(id)
    \/ Shutdown
SpecForward == InitForward /\ [][NextForward]_vars
FairForward == SpecForward /\ WF_vars(ForwardStep)

\* ---------------------------------------------------- dispatcher operations
\* Bundles whose destination is a local service (admin_endpoints
\* .is_local_service); the bundles of the model are not fragments.
LocalIds == {"b2"}

\* drop_bundle: the deletion report when a reason is given, then the
\* bundle is discarded "leaving tombstone".
DropBundle(id, reason) ==
    /\ reports' = reports (+) DropReports(id, reason)
    /\ rows' = LeaveTombstone(id)
    /\ blobs' = BlobRemove(MetaLoad(id).storage_name)

\* pipeline_pump: a queued bundle is received and process_bundle spawned
\* with the metadata as loaded.
PipelinePump(k, id) ==
    /\ dtasks[k].pc = "idle"
    /\ id \in dispatched
    /\ MetaHas(id)
    /\ dispatched' = dispatched \ {id}
    /\ dtasks' = [dtasks EXCEPT ![k] =
         [NoDTask EXCEPT !.op = "process_bundle", !.pc = "process", !.id = id,
                         !.mem = MetaLoad(id).status]]
    /\ UNCHANGED <<storeVars, reports, cfgVars, calls, scanVars, config, ack>>

\* process_bundle on DispatchPending: local service or forward, and the
\* status write.
ProcessDispatch(k) ==
    LET t == dtasks[k]
        st == IF t.id \in LocalIds THEN "CollectionPending" ELSE "ForwardPending" IN
    /\ t.pc = "process"
    /\ t.mem = "DispatchPending"
    /\ rows' = MetaSetStatus(t.id, st)
    /\ dtasks' = [dtasks EXCEPT ![k].mem = st]
    /\ UNCHANGED <<blobs, unconfirmed, nextName, reports, cfgVars, dispatched,
                   calls, scanVars, config, ack>>

\* process_bundle, the match on the status.
ProcessMatch(k) ==
    LET t == dtasks[k] IN
    /\ t.pc = "process"
    /\ t.mem # "DispatchPending"
    /\ CASE t.mem = "CollectionPending" ->
              /\ dtasks' = [dtasks EXCEPT ![k].pc = "done"]
              /\ UNCHANGED rows
         [] t.mem = "ForwardAckPending" ->
              /\ rows' = MetaSetStatus(t.id, "ForwardPending")
              /\ dtasks' = [dtasks EXCEPT ![k].mem = "ForwardPending",
                                          ![k].pc = "forward"]
         [] t.mem = "ForwardPending" ->
              /\ dtasks' = [dtasks EXCEPT ![k].pc = "forward"]
              /\ UNCHANGED rows
         [] t.mem = "Waiting" ->
              /\ dtasks' = [dtasks EXCEPT ![k].pc = "delay"]
              /\ UNCHANGED rows
         [] OTHER ->
              /\ dtasks' = [dtasks EXCEPT ![k].pc = "done"]
              /\ UNCHANGED rows
    /\ UNCHANGED <<blobs, unconfirmed, nextName, reports, cfgVars, dispatched,
                   calls, scanVars, config, ack>>

\* check_waiting: the poller spawns delay_bundle for a bundle the store
\* returns as waiting.
PollerSpawn(k, id) ==
    /\ main.poller
    /\ ~cancelled
    /\ dtasks[k].pc = "idle"
    /\ MetaLoad(id).status \in {"Waiting", "ForwardAckPending"}
    /\ dtasks' = [dtasks EXCEPT ![k] =
         [NoDTask EXCEPT !.op = "delay_bundle", !.pc = "delay", !.id = id,
                         !.mem = MetaLoad(id).status]]
    /\ UNCHANGED <<storeVars, reports, cfgVars, dispatched, calls, scanVars,
                   config, ack>>

\* delay_bundle: a wait longer than WAIT_SAMPLE_INTERVAL_SECS is left to the
\* poller.
DelayBegin(k, far) ==
    /\ dtasks[k].pc = "delay"
    /\ dtasks' = [dtasks EXCEPT ![k].pc = IF far THEN "done" ELSE "delay_sleep"]
    /\ UNCHANGED <<storeVars, reports, cfgVars, dispatched, calls, scanVars,
                   config, ack>>

\* delay_bundle: the cancellable sleep.
DelaySleep(k) ==
    /\ dtasks[k].pc = "delay_sleep"
    /\ dtasks' = [dtasks EXCEPT ![k].pc =
         IF cancelled THEN "done"
         ELSE IF dtasks[k].mem = "ForwardAckPending" THEN "delay_check"
         ELSE "delay_write"]
    /\ UNCHANGED <<storeVars, reports, cfgVars, dispatched, calls, scanVars,
                   config, ack>>

\* delay_bundle: "Check if the bundle has been acknowledged while we slept".
DelayCheck(k) ==
    /\ dtasks[k].pc = "delay_check"
    /\ dtasks' = [dtasks EXCEPT ![k].pc =
         IF MetaLoad(dtasks[k].id).status = "ForwardAckPending"
         THEN "delay_write" ELSE "done"]
    /\ UNCHANGED <<storeVars, reports, cfgVars, dispatched, calls, scanVars,
                   config, ack>>

\* delay_bundle: "Set status to ForwardPending", then forward_bundle.
DelayWrite(k) ==
    /\ dtasks[k].pc = "delay_write"
    /\ rows' = MetaSetStatus(dtasks[k].id, "ForwardPending")
    /\ dtasks' = [dtasks EXCEPT ![k].mem = "ForwardPending", ![k].pc = "forward"]
    /\ UNCHANGED <<blobs, unconfirmed, nextName, reports, cfgVars, dispatched,
                   calls, scanVars, config, ack>>

\* What the caller does with forward_bundle's result: Drop discards the
\* bundle, a resumed wait forwards again, anything else ends the task.
ForwardResult(k) ==
    LET t == dtasks[k] IN
    /\ t.pc = "returned"
    /\ t.op # "forward_bundle"
    /\ IF t.result = "Drop"
       THEN /\ DropBundle(t.id, t.reason)
            /\ dtasks' = [dtasks EXCEPT ![k].pc = "done", ![k].list = <<>>,
                                        ![k].tried = <<>>, ![k].handed = 0,
                                        ![k].offer = NoTime, ![k].sleeps = 0]
       ELSE /\ dtasks' = [dtasks EXCEPT ![k].pc =
                 IF t.result = "Continue" /\ t.mem # "ForwardAckPending"
                 THEN "forward" ELSE "done",
                 ![k].iters = 0, ![k].list = <<>>, ![k].tried = <<>>,
                 ![k].handed = 0, ![k].offer = NoTime, ![k].sleeps = 0]
            /\ UNCHANGED <<blobs, rows, reports>>
    /\ UNCHANGED <<unconfirmed, nextName, cfgVars, dispatched, calls, scanVars,
                   config, ack>>

UnknownId == "b3"
\* confirm_forwarding(handle, bundle_id): the load and the match; a bundle id
\* without a row (UnknownId) loads as None.
ConfirmForwarding_AnyHandle(k, handle, id) ==
    LET row == MetaLoad(id) IN
    /\ main.grpc
    /\ dtasks[k].pc = "idle"
    /\ dtasks' = [dtasks EXCEPT ![k] =
         IF row.status = "ForwardAckPending"
         THEN [NoDTask EXCEPT !.op = "confirm_forwarding", !.id = id,
                              !.handle = handle, !.mem = row.status,
                              !.pc = "confirm_report"]
         ELSE [NoDTask EXCEPT !.op = "confirm_forwarding", !.id = id,
                              !.handle = handle, !.mem = row.status,
                              !.pc = "done", !.result = "not_found"]]
    /\ UNCHANGED <<storeVars, reports, cfgVars, dispatched, calls, scanVars,
                   config, ack>>

ConfirmForwarding(k, handle, id) ==
    LET row == MetaLoad(id) IN
    /\ main.grpc
    /\ dtasks[k].pc = "idle"
    /\ dtasks' = [dtasks EXCEPT ![k] =
         IF row.status = "ForwardAckPending" /\ ack[id].handle = handle
         THEN [NoDTask EXCEPT !.op = "confirm_forwarding", !.id = id,
                              !.handle = handle, !.mem = row.status,
                              !.pc = "confirm_report"]
         ELSE [NoDTask EXCEPT !.op = "confirm_forwarding", !.id = id,
                              !.handle = handle, !.mem = row.status,
                              !.pc = "done", !.result = "not_found"]]
    /\ UNCHANGED <<storeVars, reports, cfgVars, dispatched, calls, scanVars,
                   config, ack>>

\* confirm_forwarding: report_bundle_forwarded.
ConfirmReport(k) ==
    /\ dtasks[k].pc = "confirm_report"
    /\ reports' = reports (+)
         ReportIf("forwarded", dtasks[k].id, "NoAdditionalInformation")
    /\ dtasks' = [dtasks EXCEPT ![k].pc = "confirm_drop"]
    /\ UNCHANGED <<storeVars, cfgVars, dispatched, calls, scanVars, config, ack>>

\* confirm_forwarding: drop_bundle(bundle, None).
ConfirmDrop(k) ==
    /\ dtasks[k].pc = "confirm_drop"
    /\ DropBundle(dtasks[k].id, NoReason)
    /\ dtasks' = [dtasks EXCEPT ![k].pc = "done", ![k].result = "ok"]
    /\ UNCHANGED <<unconfirmed, nextName, cfgVars, dispatched, calls, scanVars,
                   config, ack>>

\* report_bundle_delivered tests status_reports and the bundle's
\* forward_report_requested flag.
DeliveredReport(id) ==
    IF statusReports /\ "forwarded" \in flags[id]
    THEN SetToBag({Report("delivered", id, "NoAdditionalInformation")})
    ELSE EmptyBag

\* collect(destination, bundle_id): a CollectionPending bundle that has not
\* expired and is addressed to the caller is returned and reported
\* delivered; anything else yields None.
Collect(k, dest, id) ==
    LET row == MetaLoad(id)
        ok == /\ row.status = "CollectionPending"
              /\ id \notin expired
              /\ dest = id IN
    /\ main.grpc
    /\ dtasks[k].pc = "idle"
    /\ reports' = IF ok THEN reports (+) DeliveredReport(id) ELSE reports
    /\ dtasks' = [dtasks EXCEPT ![k] =
         [NoDTask EXCEPT !.op = "collect", !.id = id, !.mem = row.status,
                         !.pc = "done",
                         !.result = IF ok THEN "some" ELSE "none"]]
    /\ UNCHANGED <<storeVars, cfgVars, dispatched, calls, scanVars, config, ack>>

DispatchStep ==
    \/ \E k \in DTasks, id \in Ids : PipelinePump(k, id)
    \/ \E k \in DTasks : ProcessDispatch(k)
    \/ \E k \in DTasks : ProcessMatch(k)
    \/ \E k \in DTasks, id \in Ids : PollerSpawn(k, id)
    \/ \E k \in DTasks, far \in BOOLEAN : DelayBegin(k, far)
    \/ \E k \in DTasks : DelaySleep(k)
    \/ \E k \in DTasks : DelayCheck(k)
    \/ \E k \in DTasks : DelayWrite(k)
    \/ \E k \in DTasks : ForwardResult(k)
    \/ \E k \in DTasks, h \in {1, 2}, id \in Ids \cup {UnknownId} :
          ConfirmForwarding(k, h, id)
    \/ \E k \in DTasks : ConfirmReport(k)
    \/ \E k \in DTasks : ConfirmDrop(k)
    \/ \E k \in DTasks, dest \in Ids, id \in Ids : Collect(k, dest, id)

\* A serving agent holding the bundles b1 (to be forwarded) and b2 (for a
\* local service) in any status, each queued for the dispatcher.
StatusOptions(id) ==
    IF id \in LocalIds
    THEN {"DispatchPending", "CollectionPending", "Tombstone"}
    ELSE {"DispatchPending", "ForwardPending", "ForwardAckPending", "Waiting",
          "Tombstone"}
StoredRow(id, name, st) ==
    [id |-> id, status |-> st, storage_name |-> name,
     hash |-> Hash([id |-> id, form |-> "canonical"])]
InitDispatch ==
    /\ \E st \in [Ids -> UNION {StatusOptions(i) : i \in Ids}] :
         /\ \A i \in Ids : st[i] \in StatusOptions(i)
         /\ rows = {StoredRow("b1", 1, st["b1"]), StoredRow("b2", 2, st["b2"])}
         /\ blobs = [n \in Names |->
              IF n = 1 /\ st["b1"] # "Tombstone" THEN [id |-> "b1", form |-> "canonical"]
              ELSE IF n = 2 /\ st["b2"] # "Tombstone" THEN [id |-> "b2", form |-> "canonical"]
              ELSE NoData]
         /\ ack = [i \in Ids |->
              IF st[i] = "ForwardAckPending" THEN [handle |-> 1, until |-> 1]
              ELSE IF st[i] = "Waiting" THEN [handle |-> 0, until |-> 1]
              ELSE NoAck]
    /\ unconfirmed = {}
    /\ nextName = 3
    /\ reports = EmptyBag
    /\ statusReports = TRUE
    /\ clock = NoClock
    /\ queued = NoQueued
    /\ clas = NoClas
    /\ flags = [i \in Ids |-> AllKinds]
    /\ expired = {}
    /\ dispatched = Ids
    /\ calls = [c \in Calls |-> IdleCall]
    /\ main = MainServing
    /\ tasks = [n \in Names |-> NoTask]
    /\ cancelled = FALSE
    /\ snap = NoSnap
    /\ config = [max_forwarding_delay |-> 1, forwarding |-> TRUE]
    /\ dtasks = [k \in DTasks |-> NoDTask]

\* With several tasks at once the FIB answers at most one CLA, cla1 or one
\* that is gone, and every deadline is the next tick.
NearFibAnswers ==
    {a \in FibAnswers : /\ a.clas \in {<<>>, <<"cla1">>, <<"gone">>}
                        /\ a.until \in {NoTime, 1}}
NearClaOutcomes ==
    {o \in ClaOutcomes : o.until \in {NoTime, 1} /\ o.now1 \in {NoTime, 1}}
NextDispatch ==
    \/ DispatchStep
    \/ ForwardStepIn(NearFibAnswers, NearClaOutcomes)
    \/ Shutdown
SpecDispatch == InitDispatch /\ [][NextDispatch]_vars

\* ------------------------------------- the dispatcher of dispatcher.rs, timed
\* The poller, delay_bundle, wait_to_forward and the forward_bundle of
\* dispatcher.rs on a clock of ticks of one minute.  The store of this
\* specification holds the one bundle b1.
WaitSampleInterval == 1
\* "defaulting to 1 minute"
AckDefaultDelay == 1
\* The clock stops at MaxNow, which stands for every later time.
MaxNow == 3
BundleExpiry == MaxNow - 1
WaitTimes == 1..MaxNow
\* has_bundle_expired: expiry <= now.
HasExpired ==
    BundleExpiry <= clock.now

\* A task inside cancellable_sleep, and one whose sleep is over.
Sleeping(k) ==
    dtasks[k].pc \in {"delay_sleep", "fb_sleep_fib", "fb_sleep_cong"}
Due(k) ==
    Sleeping(k) /\ (dtasks[k].until <= clock.now \/ cancelled)
PollDue ==
    main.poller /\ ~cancelled /\ clock.poll <= clock.now

\* A task between two sleeps: its steps take much less than a tick.
Computing(k) ==
    dtasks[k].pc \notin {"idle", "done"} /\ ~Sleeping(k)

\* Time passes, unless a timer that has run out is still to fire or a task
\* is on its way to its next sleep.
Tick ==
    /\ clock.now < MaxNow
    /\ \A k \in DTasks : ~Due(k) /\ ~Computing(k)
    /\ ~PollDue
    /\ clock' = [clock EXCEPT !.now = @ + 1]
    /\ UNCHANGED <<storeVars, reports, clas, statusReports, flags, expired, queued,
                   dispatched, calls, scanVars, dispVars>>

\* get_waiting_bundles(now + WAIT_SAMPLE_INTERVAL) and the poller's "double
\* check": Waiting(until) or ForwardAckPending(_, until), until <= limit.
Selected(id) ==
    /\ MetaLoad(id).status \in {"Waiting", "ForwardAckPending"}
    /\ ack[id].until <= clock.now + WaitSampleInterval
FreeTasks ==
    {k \in DTasks : dtasks[k].pc = "idle"}
FirstFree ==
    CHOOSE k \in FreeTasks : TRUE
\* check_waiting: the timer fires, a delay_bundle task is spawned for the
\* bundle if it is selected, and the timer is set to the next interval.
\* With every task of the model busy on the bundle, none is added.
CheckWaiting_NoLookahead ==
    /\ PollDue
    /\ clock' = [clock EXCEPT !.poll = Min2(clock.now + WaitSampleInterval, MaxNow)]
    /\ IF /\ MetaLoad("b1").status \in {"Waiting", "ForwardAckPending"}
          /\ ack["b1"].until <= clock.now
          /\ FreeTasks # {}
       THEN dtasks' = [dtasks EXCEPT ![FirstFree] =
                [NoDTask EXCEPT !.op = "delay_bundle", !.pc = "delay",
                                !.id = "b1", !.mem = MetaLoad("b1").status,
                                !.until = ack["b1"].until]]
       ELSE UNCHANGED dtasks
    /\ UNCHANGED <<storeVars, reports, clas, statusReports, flags, expired, queued,
                   dispatched, calls, scanVars, config, ack>>
CheckWaiting ==
    /\ PollDue
    /\ clock' = [clock EXCEPT !.poll = Min2(clock.now + WaitSampleInterval, MaxNow)]
    /\ IF Selected("b1") /\ FreeTasks # {}
       THEN dtasks' = [dtasks EXCEPT ![FirstFree] =
                [NoDTask EXCEPT !.op = "delay_bundle", !.pc = "delay",
                                !.id = "b1", !.mem = MetaLoad("b1").status,
                                !.until = ack["b1"].until]]
       ELSE UNCHANGED dtasks
    /\ UNCHANGED <<storeVars, reports, clas, statusReports, flags, expired, queued,
                   dispatched, calls, scanVars, config, ack>>

\* A task returns: its locals are gone.
Ended(t) ==
    [NoDTask EXCEPT !.op = t.op, !.id = t.id, !.pc = "done"]

\* The JoinSet reaps a finished task.
TaskJoin(k) ==
    /\ dtasks[k].pc = "done"
    /\ dtasks' = [dtasks EXCEPT ![k] = NoDTask]
    /\ UNCHANGED <<storeVars, reports, cfgVars, dispatched, calls, scanVars,
                   config, ack>>

\* pipeline_pump and process_bundle for the queued bundle b1 with the
\* metadata sent with it, up to the call of forward_bundle or delay_bundle.
ProcessBundle(k, id) ==
    LET st == queued.status IN
    /\ dtasks[k].pc = "idle"
    /\ id \in dispatched
    /\ dispatched' = dispatched \ {id}
    /\ queued' = NoQueued
    /\ CASE st \in {"DispatchPending", "ForwardAckPending"} ->
              /\ rows' = MetaSetStatus(id, "ForwardPending")
              /\ dtasks' = [dtasks EXCEPT ![k] =
                   [NoDTask EXCEPT !.op = "process_bundle", !.pc = "forward",
                                   !.id = id, !.mem = "ForwardPending"]]
         [] st = "ForwardPending" ->
              /\ dtasks' = [dtasks EXCEPT ![k] =
                   [NoDTask EXCEPT !.op = "process_bundle", !.pc = "forward",
                                   !.id = id, !.mem = "ForwardPending"]]
              /\ UNCHANGED rows
         [] st = "Waiting" ->
              /\ dtasks' = [dtasks EXCEPT ![k] =
                   [NoDTask EXCEPT !.op = "process_bundle", !.pc = "delay",
                                   !.id = id, !.mem = "Waiting",
                                   !.until = queued.until]]
              /\ UNCHANGED rows
         [] OTHER ->
              /\ dtasks' = [dtasks EXCEPT ![k] =
                   [NoDTask EXCEPT !.op = "process_bundle", !.pc = "done",
                                   !.id = id, !.mem = st]]
              /\ UNCHANGED rows
    /\ UNCHANGED <<blobs, unconfirmed, nextName, reports, clas, statusReports,
                   flags,
                   expired, clock, calls, scanVars, config, ack>>

\* delay_bundle: "Check if it's worth us waiting".
DelayBundle(k) ==
    LET t == dtasks[k] IN
    /\ t.pc = "delay"
    /\ dtasks' = [dtasks EXCEPT ![k].pc =
         IF t.until - clock.now > WaitSampleInterval THEN "done"
         ELSE "delay_sleep",
         ![k].until = IF t.until - clock.now > WaitSampleInterval
                      THEN NoTime ELSE @]
    /\ UNCHANGED <<storeVars, reports, cfgVars, dispatched, calls, scanVars,
                   config, ack>>

\* delay_bundle: cancellable_sleep(wait) returns.
DelayWake(k) ==
    /\ dtasks[k].pc = "delay_sleep"
    /\ Due(k)
    /\ dtasks' = [dtasks EXCEPT ![k] =
         IF cancelled THEN Ended(dtasks[k])
         ELSE [dtasks[k] EXCEPT !.until = NoTime, !.pc =
                  IF dtasks[k].mem = "ForwardAckPending" THEN "delay_check"
                  ELSE "delay_write"]]
    /\ UNCHANGED <<storeVars, reports, cfgVars, dispatched, calls, scanVars,
                   config, ack>>

\* What fib.find of dispatcher.rs answers: a list of at most MaxClas actions
\* Drop(reason), Wait(until) and Forward(cla), taken in order; the list is
\* drawn action by action as the loop takes them.
FibActions ==
    [kind : {"Drop"}, reason : {"NoKnownRouteToDestinationFromHere"},
     until : {NoTime}, cla : {"none"}]
    \cup [kind : {"Wait"}, reason : {NoReason}, until : WaitTimes,
          cla : {"none"}]
    \cup [kind : {"Forward"}, reason : {NoReason}, until : {NoTime},
          cla : {"cla1", "gone"}]
\* What a CLA endpoint answers: (None, None), (Some(token), until?),
\* (None, Some(until)) or an error.
EndpointOutcomes ==
    [kind : {"Sent", "Err"}, handle : {0}, until : {NoTime}]
    \cup [kind : {"Pending"}, handle : {1}, until : {NoTime} \cup WaitTimes]
    \cup [kind : {"Congested"}, handle : {0}, until : WaitTimes]

\* "Check to see if waiting is even worth it".
WorthWaiting_Always(until) ==
    TRUE
WorthWaiting(until) ==
    ~(until > BundleExpiry)

\* forward_bundle leaves its loop with a reason for drop_bundle; a wait
\* found too long stays in `until`.
Break(t, reason) ==
    [Ended(t) EXCEPT !.pc = "fb_drop", !.reason = reason]
\* actions = fib.find(&destination).into_iter()
Lookup(t) ==
    [t EXCEPT !.pc = "fb_next", !.taken = 0, !.until = NoTime,
              !.stale = HasExpired]
\* "Check bundle expiry", then "Lookup again".
CheckAndLookup(t) ==
    IF HasExpired THEN Break(t, "LifetimeExpired") ELSE Lookup(t)

\* forward_bundle of dispatcher.rs up to its loop.
ForwardBundleEntry(k) ==
    LET t == dtasks[k] IN
    /\ t.pc = "forward"
    /\ dtasks' = [dtasks EXCEPT ![k] =
         IF HasExpired THEN Break(t, "LifetimeExpired")
         ELSE IF ~config.forwarding
         THEN Break(t, "DestinationEndpointIDUnavailable")
         ELSE Lookup([t EXCEPT !.previous = FALSE, !.retries = 0,
                               !.congestion = NoTime,
                               !.dest = "destination"])]
    /\ UNCHANGED <<storeVars, reports, cfgVars, dispatched, calls, scanVars,
                   config, ack>>

\* wait_to_forward for the task t, which holds the deadline in `until`: a
\* wait longer than the sample interval is written as Waiting(until) and
\* left to the poller; a shorter one is slept on.
WaitToForward(k, t, sleep) ==
    IF t.until - clock.now > WaitSampleInterval
    THEN /\ rows' = MetaSetStatus(t.id, "Waiting")
         /\ ack' = [ack EXCEPT ![t.id] = [handle |-> 0, until |-> t.until]]
         /\ dtasks' = [dtasks EXCEPT ![k] = [Ended(t) EXCEPT !.mem = "Waiting"]]
    ELSE /\ dtasks' = [dtasks EXCEPT ![k] = [t EXCEPT !.pc = sleep]]
         /\ UNCHANGED <<rows, ack>>

\* The FIB and the CLAs name times to come.
Ahead(a, outcome) ==
    /\ a.kind = "Wait" => a.until > clock.now
    /\ outcome.kind = "Congested" => outcome.until > clock.now

\* forward_bundle, actions.next() = Some(action).
ForwardBundleAction(k, a, outcome) ==
    LET t == dtasks[k]
        next == [t EXCEPT !.taken = @ + 1] IN
    /\ t.pc = "fb_next"
    /\ t.taken < MaxClas
    /\ (a.kind = "Forward" /\ a.cla # "gone") \/ outcome.kind = "Err"
    /\ Ahead(a, outcome)
    /\ CASE a.kind = "Drop" ->
              /\ dtasks' = [dtasks EXCEPT ![k] = Break(t, a.reason)]
              /\ UNCHANGED <<rows, reports, ack>>
         [] a.kind = "Wait" ->
              /\ IF WorthWaiting(a.until)
                 THEN WaitToForward(k, [t EXCEPT !.until = a.until,
                                                !.taken = 0, !.stale = FALSE],
                                    "fb_sleep_fib")
                 ELSE /\ dtasks' = [dtasks EXCEPT ![k] =
                           [Break(t, "NoTimelyContactWithNextNodeOnRoute")
                              EXCEPT !.until = a.until]]
                      /\ UNCHANGED <<rows, ack>>
              /\ UNCHANGED reports
         [] a.kind = "Forward" /\ a.cla = "gone" ->
              /\ dtasks' = [dtasks EXCEPT ![k] = next]
              /\ UNCHANGED <<rows, reports, ack>>
         [] a.kind = "Forward" /\ a.cla # "gone"
               /\ BlobLoad(MetaLoad(t.id).storage_name) = NoData ->
              /\ dtasks' = [dtasks EXCEPT ![k] = Break(t, "DepletedStorage")]
              /\ UNCHANGED <<rows, reports, ack>>
         [] OTHER ->
              CASE outcome.kind = "Sent" ->
                     /\ reports' = reports (+) ReportIf("forwarded", t.id,
                                                   "NoAdditionalInformation")
                     /\ dtasks' = [dtasks EXCEPT ![k] =
                          [Break(t, NoReason) EXCEPT !.handed = 1]]
                     /\ UNCHANGED <<rows, ack>>
                [] outcome.kind = "Pending" ->
                     /\ rows' = MetaSetStatus(t.id, "ForwardAckPending")
                     /\ ack' = [ack EXCEPT ![t.id] =
                          [handle |-> outcome.handle,
                           until |-> Min2(IF outcome.until = NoTime
                                          THEN clock.now + AckDefaultDelay
                                          ELSE outcome.until, BundleExpiry)]]
                     /\ dtasks' = [dtasks EXCEPT ![k] =
                          [Ended(t) EXCEPT !.mem = "ForwardAckPending",
                                           !.handed = 1]]
                     /\ UNCHANGED reports
                [] outcome.kind = "Congested" ->
                     /\ dtasks' = [dtasks EXCEPT ![k] =
                          [next EXCEPT !.congestion =
                              IF @ = NoTime THEN outcome.until
                              ELSE Min2(@, outcome.until)]]
                     /\ UNCHANGED <<rows, reports, ack>>
                [] OTHER ->
                     /\ dtasks' = [dtasks EXCEPT ![k] = next]
                     /\ UNCHANGED <<rows, reports, ack>>
    /\ UNCHANGED <<blobs, unconfirmed, nextName, cfgVars, dispatched, calls,
                   scanVars, config>>

\* forward_bundle, actions.next() = None: congestion, the retry limit, or
\* another retry.
ForwardBundleNone(k) ==
    LET t == [dtasks[k] EXCEPT !.taken = 0, !.stale = FALSE] IN
    /\ t.pc = "fb_next"
    /\ IF t.congestion # NoTime
       THEN IF WorthWaiting(t.congestion)
            THEN WaitToForward(k, [t EXCEPT !.until = t.congestion],
                               "fb_sleep_cong")
            ELSE /\ dtasks' = [dtasks EXCEPT ![k] =
                      [Break(t, "NoTimelyContactWithNextNodeOnRoute")
                         EXCEPT !.until = t.congestion]]
                 /\ UNCHANGED <<rows, ack>>
       ELSE /\ dtasks' = [dtasks EXCEPT ![k] =
                 IF t.retries > config.max_forwarding_delay
                 THEN IF t.previous
                      THEN Break(t, "NoKnownRouteToDestinationFromHere")
                      ELSE CheckAndLookup([t EXCEPT !.dest = "previous_node",
                                                    !.previous = TRUE,
                                                    !.retries = 0])
                 ELSE [t EXCEPT !.pc = "fb_retry", !.retries = @ + 1]]
            /\ UNCHANGED <<rows, ack>>
    /\ UNCHANGED <<blobs, unconfirmed, nextName, reports, cfgVars, dispatched,
                   calls, scanVars, config>>

\* wait_to_forward returns from its sleep: after a FIB Wait the lookup is
\* restarted, after congestion the loop goes on to its expiry check.
WaitWake_IgnoresCancel(k) ==
    LET t == dtasks[k] IN
    /\ t.pc \in {"fb_sleep_fib", "fb_sleep_cong"}
    /\ Due(k)
    /\ dtasks' = [dtasks EXCEPT ![k] =
         IF t.pc = "fb_sleep_fib"
         THEN Lookup([t EXCEPT !.retries = 0])
         ELSE CheckAndLookup([t EXCEPT !.congestion = NoTime, !.retries = 0,
                                       !.until = NoTime])]
    /\ UNCHANGED <<storeVars, reports, cfgVars, dispatched, calls, scanVars,
                   config, ack>>
WaitWake(k) ==
    LET t == dtasks[k] IN
    /\ t.pc \in {"fb_sleep_fib", "fb_sleep_cong"}
    /\ Due(k)
    /\ dtasks' = [dtasks EXCEPT ![k] =
         IF cancelled THEN Ended(t)
         ELSE IF t.pc = "fb_sleep_fib"
         THEN Lookup([t EXCEPT !.retries = 0])
         ELSE CheckAndLookup([t EXCEPT !.congestion = NoTime, !.retries = 0,
                                       !.until = NoTime])]
    /\ UNCHANGED <<storeVars, reports, cfgVars, dispatched, calls, scanVars,
                   config, ack>>

\* forward_bundle: "Async sleep for 1 second", much less than a tick, then
\* the expiry check and the next lookup.
ForwardBundleRetry(k) ==
    /\ dtasks[k].pc = "fb_retry"
    /\ dtasks' = [dtasks EXCEPT ![k] =
         IF cancelled THEN Ended(dtasks[k]) ELSE CheckAndLookup(dtasks[k])]
    /\ UNCHANGED <<storeVars, reports, cfgVars, dispatched, calls, scanVars,
                   config, ack>>

\* forward_bundle: drop_bundle(metadata, bundle, reason) after the loop.
ForwardBundleDrop(k) ==
    /\ dtasks[k].pc = "fb_drop"
    /\ DropBundle(dtasks[k].id, dtasks[k].reason)
    /\ dtasks' = [dtasks EXCEPT ![k] = Ended(dtasks[k])]
    /\ UNCHANGED <<unconfirmed, nextName, cfgVars, dispatched, calls, scanVars,
                   config, ack>>

\* The steps of the tasks the dispatcher has spawned.
TaskStep(k) ==
    \/ DelayBundle(k)
    \/ DelayWake(k)
    \/ DelayCheck(k)
    \/ DelayWrite(k)
    \/ ForwardBundleEntry(k)
    \/ \E a \in FibActions, outcome \in EndpointOutcomes :
         ForwardBundleAction(k, a, outcome)
    \/ ForwardBundleNone(k)
    \/ WaitWake(k)
    \/ ForwardBundleRetry(k)
    \/ ForwardBundleDrop(k)
    \/ TaskJoin(k)

\* A serving agent at time 0 with b1 stored in some status and queued for
\* the dispatcher, as the startup scan leaves it; the bundle requests
\* deletion reports.
WaitStatuses ==
    [status : {"DispatchPending", "ForwardPending"}, handle : {0},
     until : {NoTime}]
    \cup [status : {"Waiting"}, handle : {0}, until : 1..BundleExpiry]
    \cup [status : {"ForwardAckPending"}, handle : {1}, until : 1..BundleExpiry]
InitWait ==
    /\ \E w \in WaitStatuses :
         /\ rows = {StoredRow("b1", 1, w.status)}
         /\ ack = [i \in Ids |-> IF i = "b1"
                                 THEN [handle |-> w.handle, until |-> w.until]
                                 ELSE NoAck]
    /\ blobs = [n \in Names |-> IF n = 1 THEN [id |-> "b1", form |-> "canonical"]
                                ELSE NoData]
    /\ unconfirmed = {}
    /\ nextName = 2
    /\ reports = EmptyBag
    /\ statusReports \in BOOLEAN
    /\ flags = [i \in Ids |-> {"deleted"}]
    /\ expired = {}
    /\ clock = [now |-> 0, poll |-> WaitSampleInterval]
    /\ queued = [status |-> MetaLoad("b1").status, until |-> ack["b1"].until]
    /\ clas = NoClas
    /\ dispatched = {"b1"}
    /\ calls = [c \in Calls |-> IdleCall]
    /\ main = MainServing
    /\ tasks = [n \in Names |-> NoTask]
    /\ cancelled = FALSE
    /\ snap = NoSnap
    /\ config \in [max_forwarding_delay : {0}, forwarding : BOOLEAN]
    /\ dtasks = [k \in DTasks |-> NoDTask]

NextWait ==
    \/ Tick
    \/ CheckWaiting
    \/ FreeTasks # {} /\ ProcessBundle(FirstFree, "b1")
    \/ \E k \in DTasks : TaskStep(k)
    \/ Shutdown
SpecWait == InitWait /\ [][NextWait]_vars
\* The runtime schedules every task, the timers fire and time passes.
FairWait ==
    /\ SpecWait
    /\ WF_vars(Tick)
    /\ WF_vars(CheckWaiting)
    /\ WF_vars(FreeTasks # {} /\ ProcessBundle(FirstFree, "b1"))
    /\ \A k \in DTasks : WF_vars(TaskStep(k))

\* ================================================================ claims

ReceptionReport(id) ==
    Report("received", id, "NoAdditionalInformation")
DepletedReport(id) ==
    Report("deleted", id, "DepletedStorage")
Finished(c) ==
    calls[c].pc = "done"

C5_OneReceptionReport ==
    \A c1, c2 \in Calls :
        (/\ c1 # c2
         /\ calls[c1].op = "receive_bundle" /\ Finished(c1)
         /\ calls[c2].op = "receive_bundle" /\ Finished(c2)
         /\ calls[c1].input = calls[c2].input
         /\ Parse(calls[c1].input).kind = "Valid")
        => CopiesIn(ReceptionReport(calls[c1].id), reports) <= 1

ScanComplete ==
    /\ main.pc = "returned"
    /\ main.phases = 2

\* C2: once the scan has finished without cancellation, every row that is
\* not a Tombstone names a blob that is present and whose SHA-256 is the
\* row's hash.
C2_RowsNameTheirBlob ==
    ScanComplete =>
        \A r \in rows :
            r.status # "Tombstone" =>
                /\ BlobLoad(r.storage_name) # NoData
                /\ Hash(BlobLoad(r.storage_name)) = r.hash

ReportWanted(kind, id) ==
    statusReports /\ kind \in flags[id]

\* C7 as stated: after the enumeration every row that was unconfirmed is
\* gone, with a DepletedStorage report when one is wanted.
C7_EveryUnconfirmedRowRemoved ==
    ScanComplete =>
        \A r \in main.orphans :
            /\ ~MetaHas(r.id)
            /\ CopiesIn(DepletedReport(r.id), reports) =
                  IF ReportWanted("deleted", r.id) THEN 1 ELSE 0

\* C7, amended: after the enumeration every unconfirmed row that is not a
\* Tombstone is gone, with exactly one DepletedStorage deletion report iff
\* the bundle requests deletion reports and status reports are enabled; an
\* unconfirmed Tombstone row is kept as it was and nothing is reported.
C7_UnconfirmedLiveRowsRemoved ==
    ScanComplete =>
        \A r \in main.orphans :
            IF r.status = "Tombstone"
            THEN /\ r \in rows
                 /\ CopiesIn(DepletedReport(r.id), reports) = 0
            ELSE /\ ~MetaHas(r.id)
                 /\ CopiesIn(DepletedReport(r.id), reports) =
                       IF ReportWanted("deleted", r.id) THEN 1 ELSE 0

\* The enumeration has handled a live orphan whose bundle wants the report
\* and a Tombstone orphan.
C7_Witness ==
    /\ ScanComplete
    /\ \E r \in main.orphans : r.status # "Tombstone" /\ ReportWanted("deleted", r.id)
    /\ \E r \in main.orphans : r.status = "Tombstone"

\* What one step of a restart_bundle task may do once a row was found.
C8_Step ==
    \A n \in Names :
        LET t == tasks[n]
            row == MetaLoad(t.id)
            same == /\ row.status # "Tombstone"
                    /\ row.storage_name = t.name
                    /\ row.hash = t.hash
        IN
        /\ (t.pc = "confirm" /\ tasks'[n].pc # "confirm" /\ MetaHas(t.id)) =>
              /\ tasks'[n].pc = (IF same THEN "check" ELSE "drop")
              /\ rows' = rows
              /\ blobs' = blobs
        /\ (t.pc = "drop" /\ tasks'[n].pc = "done") =>
              /\ blobs'[t.name] = NoData
              /\ rows' = rows
        /\ (t.pc = "check" /\ tasks'[n].pc = "done") =>
              IF CheckReason(t.id, t.reason) = NoReason
              THEN /\ t.id \in dispatched'
                   /\ blobs' = blobs /\ blobs[t.name] # NoData
                   /\ rows' = rows
              ELSE MetaLoad(t.id)'.status = "Tombstone"
\* C8: when confirm_exists returns a row, restart_bundle keeps the blob and
\* sends the bundle through check_bundle exactly when the row is not a
\* Tombstone and its storage_name and hash equal the blob's; otherwise it
\* removes the blob, and the row stays as it was.
C8_RowDecidesBlob ==
    [][C8_Step]_vars

\* A blob whose row names it but records another hash has been removed,
\* and a blob that matched its row has been through check_bundle.
C8_Witness ==
    /\ \E n \in Names :
          /\ tasks[n].pc = "done" /\ tasks[n].decision = "drop"
          /\ tasks[n].row.status # "Tombstone"
          /\ tasks[n].row.storage_name = tasks[n].name
          /\ tasks[n].row.hash # tasks[n].hash
    /\ \E n \in Names :
          /\ tasks[n].pc = "done" /\ tasks[n].decision = "keep"

\* C9: for a bundle that parses as Rewritten, the bytes written to the
\* bundle store and the hash recorded in the metadata are those of the
\* canonical re-encoding, in receive_bundle and in the restart scan, where
\* the non-canonical blob is gone once the canonical one is stored.
C9_CanonicalStored ==
    /\ \A c \in Calls :
         (calls[c].op = "receive_bundle" /\ Parse(calls[c].input).kind = "Rewritten")
         => /\ calls[c].written \in {NoData, Canonicalise(calls[c].input)}
            /\ calls[c].written # NoData =>
                  calls[c].hash = Hash(Canonicalise(calls[c].input))
            /\ calls[c].result = "stored" =>
                  /\ MetaLoad(calls[c].id).hash = Hash(Canonicalise(calls[c].input))
                  /\ MetaLoad(calls[c].id).storage_name = calls[c].name
    /\ \A n \in Names :
         tasks[n].kind = "Rewritten"
         => /\ tasks[n].written.form = "canonical"
            /\ tasks[n].written.id = tasks[n].id
            /\ tasks[n].hash = Hash(tasks[n].written)
            /\ blobs[n] = NoData
            /\ tasks[n].pc = "ingress_check" =>
                  /\ MetaLoad(tasks[n].id).hash = Hash(tasks[n].written)
                  /\ MetaLoad(tasks[n].id).storage_name = tasks[n].name
                  /\ blobs[tasks[n].name] = tasks[n].written

\* The scan has rewritten and ingested a non-canonical blob, and a
\* non-canonical bundle has been received and stored.
C9_Witness ==
    /\ \E n \in Names :
          /\ tasks[n].kind = "Rewritten" /\ tasks[n].decision = "orphan"
          /\ tasks[n].pc = "done"
    /\ \E c \in Calls :
          /\ Parse(calls[c].input).kind = "Rewritten"
          /\ calls[c].result = "stored"

C6_SecondScanChangesNothing ==
    (main.run = 2 /\ ScanComplete) =>
        /\ rows = snap.rows
        /\ blobs = snap.blobs
        /\ \A id \in Ids :
             CopiesIn(DepletedReport(id), reports) =
                CopiesIn(DepletedReport(id), snap.reports)

\* C4: forward_bundle returns, and it does so within 2 * (max_forwarding_delay
\* + 1) passes of its loop, whatever the FIB and the CLAs answer.
C4_ForwardReturns ==
    /\ [](\A k \in DTasks :
            dtasks[k].iters <= 2 * (config.max_forwarding_delay + 1))
    /\ <>(dtasks[1].pc = "returned")

\* forward_bundle has gone through every retry for the destination and for
\* the previous node, and has returned.
C4_Witness ==
    /\ dtasks[1].pc = "returned"
    /\ dtasks[1].previous
    /\ dtasks[1].iters = 2 * (config.max_forwarding_delay + 1)
    /\ config.max_forwarding_delay = MaxDelay

\* What one step may do to a bundle whose persisted status is Tombstone.
C3_Step ==
    \A id \in Ids :
        MetaLoad(id).status = "Tombstone" =>
            /\ MetaLoad(id)'.status = "Tombstone"
            /\ \A k \in DTasks :
                 (dtasks[k].id = id /\ dtasks[k].pc \in {"loop", "clas"})
                    => dtasks'[k] = dtasks[k]
            /\ \A r \in BagToSet(reports') :
                 r.id = id => CopiesIn(r, reports') = CopiesIn(r, reports)
            /\ \A k \in DTasks :
                 (dtasks[k].pc = "idle" /\ dtasks'[k].id = id
                     /\ dtasks'[k].op \in {"confirm_forwarding", "collect"})
                    => dtasks'[k].result \in {"not_found", "none"}
\* C3: once the persisted status of a bundle is Tombstone, no dispatcher
\* step changes that status, looks the bundle up in the FIB, hands it to a
\* CLA or emits a report about it, and confirm_forwarding and collect on
\* it answer not-found / None.
C3_TombstoneAbsorbing ==
    [][C3_Step]_vars

ForwardedReport(id) ==
    Report("forwarded", id, "NoAdditionalInformation")
\* What the steps of a confirm_forwarding call may do.
C11_Step ==
    \A k \in DTasks :
        LET t == dtasks[k]
            u == dtasks'[k]
            matches == /\ MetaLoad(u.id).status = "ForwardAckPending"
                       /\ ack[u.id].handle = u.handle
        IN
        /\ (t.pc = "idle" /\ u.op = "confirm_forwarding") =>
              IF matches
              THEN u.pc = "confirm_report"
              ELSE /\ u.pc = "done" /\ u.result = "not_found"
                   /\ rows' = rows /\ blobs' = blobs /\ reports' = reports
        /\ (t.pc = "confirm_report" /\ u.pc # "confirm_report") =>
              /\ u.pc = "confirm_drop"
              /\ reports' = reports (+)
                    (IF ReportWanted("forwarded", t.id)
                     THEN SetToBag({ForwardedReport(t.id)}) ELSE EmptyBag)
        /\ (t.pc = "confirm_drop" /\ u.pc # "confirm_drop") =>
              /\ u.pc = "done" /\ u.result = "ok"
              /\ MetaLoad(t.id)'.status = "Tombstone"
              /\ reports' = reports
\* C11: confirm_forwarding(handle, bundle_id) emits the forwarded report
\* (when requested and enabled) and moves the bundle to Tombstone iff the
\* persisted status is ForwardAckPending(h, _) with h = handle; for an
\* unknown bundle id, another handle or any other status it answers
\* not-found, changes neither rows nor blobs and emits no report.
C11_ConfirmForwarding ==
    [][C11_Step]_vars

\* One call has completed a ForwardAckPending bundle and reported it; a call
\* quoting another handle for a ForwardAckPending bundle was refused.
C11_Witness ==
    /\ \E k \in DTasks :
          /\ dtasks[k].op = "confirm_forwarding" /\ dtasks[k].result = "ok"
          /\ MetaLoad(dtasks[k].id).status = "Tombstone"
          /\ CopiesIn(ForwardedReport(dtasks[k].id), reports) >= 1
    /\ \E k \in DTasks :
          /\ dtasks[k].op = "confirm_forwarding"
          /\ dtasks[k].result = "not_found"
          /\ dtasks[k].mem = "ForwardAckPending"

Confirmed(id) ==
    \E k \in DTasks :
        /\ dtasks[k].op = "confirm_forwarding"
        /\ dtasks[k].id = id
        /\ dtasks[k].result = "ok"
\* What a delay_bundle task may do once its bundle has been confirmed.
C12_Step ==
    \A k \in DTasks :
        (dtasks[k].op = "delay_bundle" /\ Confirmed(dtasks[k].id)) =>
            /\ dtasks'[k].pc # "forward"
            /\ MetaLoad(dtasks[k].id)'.status # "ForwardPending"
\* C12: in every interleaving of confirm_forwarding with a delay_bundle
\* task waiting on the same ForwardAckPending bundle, once the bundle has
\* been confirmed the task does not forward it again and the status is not
\* set back to ForwardPending.
C12_ConfirmedStaysConfirmed ==
    [][C12_Step]_vars

IsPrefix(a, b) ==
    /\ Len(a) <= Len(b)
    /\ \A i \in 1..Len(a) : a[i] = b[i]
FwdMax ==
    config.max_forwarding_delay
\* A CLA has answered Pending in this step of task k.
PendingStep(k) ==
    /\ dtasks[k].pc = "clas"
    /\ dtasks'[k].handed = dtasks[k].handed + 1
    /\ dtasks'[k].result = "Continue"
C15_Step ==
    \A k \in DTasks :
        PendingStep(k) =>
            LET t == dtasks[k]
                u == dtasks'[k] IN
            /\ MetaLoad(t.id)'.status = "ForwardAckPending"
            /\ ack'[t.id].handle # 0
            /\ ack'[t.id].until = Min2(u.offer, ExpiryTime)
            /\ u.pc = "returned"
            /\ u.tried = Append(t.tried, Head(t.clas))
\* C15: when a CLA answers Pending(handle, until?), the status becomes
\* ForwardAckPending(handle, t) with t the smaller of the CLA's deadline
\* (now + 1 minute when it gave none) and the bundle's expiry, so t never
\* exceeds the expiry, and forward_bundle returns without another CLA.
C15_PendingDeadline ==
    /\ [][C15_Step]_vars
    /\ [](\A id \in Ids :
            MetaLoad(id).status = "ForwardAckPending" =>
                ack[id].until <= ExpiryTime)

\* A CLA that was not the last of the list answered Pending with a deadline
\* after the expiry, and the expiry was recorded.
C15_Witness ==
    /\ dtasks[1].pc = "returned" /\ dtasks[1].result = "Continue"
    /\ dtasks[1].offer > ExpiryTime
    /\ ack["b1"].until = ExpiryTime /\ ack["b1"].handle = 1
    /\ MetaLoad("b1").status = "ForwardAckPending"
    /\ Len(dtasks[1].tried) < Len(dtasks[1].list)

\* C16: within a pass the CLAs are looked up in the order of the FIB's list
\* (what was tried is a prefix of the list, the rest is still to come), and
\* once a CLA has answered Sent or Pending no further CLA is invoked: a
\* call hands the bundle to at most one CLA.
C16_OneClaInOrder ==
    \A k \in DTasks :
        LET t == dtasks[k] IN
        /\ IsPrefix(t.tried, t.list)
        /\ t.pc = "clas" => (t.tried \o t.clas = t.list /\ t.handed = 0)
        /\ t.handed <= 1
        /\ t.handed = 1 => t.pc = "returned"

\* The first CLA of a list of two failed and the second took the bundle.
C16_Witness ==
    /\ dtasks[1].pc = "returned" /\ dtasks[1].handed = 1
    /\ dtasks[1].list = <<"cla1", "cla2">>
    /\ dtasks[1].tried = <<"cla1", "cla2">>

C17_Step ==
    \A k \in DTasks :
        LET t == dtasks[k]
            u == dtasks'[k] IN
        /\ (t.pc = "clas" /\ ~t.previous /\ u.previous) =>
              /\ t.sleeps = FwdMax /\ t.congestion = NoTime
              /\ t.dest = "destination" /\ u.dest = "previous_node"
              /\ u.retries = 0 /\ u.pc = "loop"
        /\ (t.pc # "forward" /\ t.previous) => u.previous
        /\ (t.pc = "clas" /\ u.pc = "returned"
                /\ u.reason = "NoKnownRouteToDestinationFromHere") =>
              /\ t.previous /\ t.sleeps = 2 * FwdMax /\ u.result = "Drop"
        /\ (t.pc = "clas" /\ u.pc = "sleep") =>
              /\ t.congestion = NoTime /\ t.clas = <<>>
              /\ u.retries = t.retries + 1 /\ t.retries < FwdMax
ExhaustedDrop(k) ==
    /\ dtasks[k].pc = "clas" /\ dtasks[k].clas = <<>>
    /\ dtasks'[k].pc = "returned" /\ dtasks'[k].result = "Drop"
C18_Step ==
    \A k \in DTasks :
        LET t == dtasks[k]
            u == dtasks'[k] IN
        /\ ExhaustedDrop(k) =>
              /\ u.reason = "NoKnownRouteToDestinationFromHere"
              /\ t.congestion = NoTime
              /\ t.previous /\ t.retries = FwdMax
        /\ (t.pc = "clas" /\ t.clas = <<>> /\ t.congestion # NoTime
                /\ u # t) =>
              /\ u.pc = "wait" /\ u.retries = t.retries
              /\ u.previous = t.previous
Processing(k, id) ==
    /\ dtasks[k].id = id
    /\ dtasks[k].pc \notin {"idle", "done"}
\* C13: at any time at most one dispatcher task is processing a given
\* bundle; the poller does not spawn a second task for a bundle whose earlier
\* task still sleeps inline while the stored status is Waiting or
\* ForwardAckPending.
C13_OneTaskPerBundle ==
    \A j, k \in DTasks :
        (Processing(j, "b1") /\ Processing(k, "b1")) => j = k

\* A task inside forward_bundle of dispatcher.rs or its drop_bundle.
InForward(k) ==
    dtasks[k].pc \in {"fb_next", "fb_sleep_fib", "fb_sleep_cong", "fb_retry",
                      "fb_drop"}
TooLate(k) ==
    InForward(k) /\ dtasks[k].until > BundleExpiry
C19_Step ==
    \A k \in DTasks :
        LET t == dtasks[k]
            u == dtasks'[k] IN
        \* a wait found too long goes to drop_bundle, not to a sleep
        /\ (~TooLate(k) /\ TooLate(k)') =>
              /\ u.pc = "fb_drop"
              /\ u.reason = "NoTimelyContactWithNextNodeOnRoute"
              /\ rows' = rows
        \* drop_bundle: the deletion report if requested, and the tombstone
        /\ (TooLate(k) /\ u # t) =>
              /\ u.pc = "done"
              /\ reports' = reports (+)
                    (IF statusReports /\ "deleted" \in flags[t.id]
                     THEN SetToBag({Report("deleted", t.id,
                                     "NoTimelyContactWithNextNodeOnRoute")})
                     ELSE EmptyBag)
              /\ MetaLoad(t.id)'.status = "Tombstone"
\* C19: when the FIB's Wait(until) or the earliest congestion until lies
\* after the bundle's expiry, forward_bundle drops the bundle with
\* NoTimelyContactWithNextNodeOnRoute and one deletion report if requested,
\* without sleeping; no bundle is stored as Waiting(until) with until later
\* than its expiry.
C19_NoWaitBeyondExpiry ==
    /\ [][C19_Step]_vars
    /\ [](\A k \in DTasks : Sleeping(k) => dtasks[k].until <= BundleExpiry)
    /\ [](MetaLoad("b1").status = "Waiting" => ack["b1"].until <= BundleExpiry)

\* Every CLA was congested until after the expiry, and the bundle has been
\* dropped for it with a deletion report.
C19_Witness ==
    /\ MetaLoad("b1").status = "Tombstone"
    /\ BagIn(Report("deleted", "b1", "NoTimelyContactWithNextNodeOnRoute"),
             reports)
    /\ clock.now < BundleExpiry

\* The bundle is stored as Waiting(until) or ForwardAckPending(_, until).
Deferred(id) ==
    MetaLoad(id).status \in {"Waiting", "ForwardAckPending"}
\* A step of the poller's timer, and a task spawned in the step.
PollStep ==
    clock'.poll # clock.poll
Spawned ==
    \E k \in DTasks :
        /\ dtasks[k].pc = "idle"
        /\ dtasks'[k].op = "delay_bundle" /\ dtasks'[k].pc = "delay"
        /\ dtasks'[k].id = "b1"
C14_Step ==
    \* the poll selects the bundle iff until <= now + wait_sample_interval
    /\ (PollStep /\ FreeTasks # {}) =>
          (Spawned <=>
             (Deferred("b1")
                /\ ack["b1"].until <= clock.now + WaitSampleInterval))
    \* wait_to_forward writes Waiting only for a wait beyond the interval
    /\ (MetaLoad("b1")'.status = "Waiting" /\ rows' # rows) =>
          ack'["b1"].until - clock.now > WaitSampleInterval
    \* and otherwise sleeps inline
    /\ \A k \in DTasks :
          (dtasks[k].pc = "fb_next"
             /\ dtasks'[k].pc \in {"fb_sleep_fib", "fb_sleep_cong"}) =>
               /\ dtasks'[k].until - clock.now <= WaitSampleInterval
               /\ rows' = rows
\* C14: absent cancellation, a bundle stored as Waiting(until) or
\* ForwardAckPending(_, until) eventually re-enters forwarding or is
\* dropped: the poller selects it at the first poll with until <= now +
\* wait_sample_interval, and wait_to_forward stores Waiting only when
\* until - now exceeds that interval and otherwise sleeps inline.
C14_DeferredResumes ==
    /\ [][C14_Step]_vars
    /\ (Deferred("b1") ~> (~Deferred("b1") \/ cancelled))

\* The bundle waits until its expiry; the first poll within the interval of
\* it has spawned delay_bundle, which sleeps inline.
C14_Witness ==
    /\ MetaLoad("b1").status = "Waiting"
    /\ ack["b1"].until = BundleExpiry
    /\ clock.now = BundleExpiry - WaitSampleInterval
    /\ \E k \in DTasks :
          dtasks[k].op = "delay_bundle" /\ dtasks[k].pc = "delay_sleep"
    /\ dispatched = {}
    /\ ~cancelled

C20_Step ==
    \A k \in DTasks :
        (dtasks[k].pc = "fb_next" /\ dtasks'[k].handed > dtasks[k].handed) =>
            ~dtasks[k].stale
\* C20: forward_bundle checks the bundle's expiry before every FIB lookup
\* and drops with LifetimeExpired when expiry <= now, so no pass over the
\* FIB's answer begins at or after the expiry and no CLA is handed the
\* bundle in such a pass.
C20_ExpiryBeforeLookup ==
    /\ [](\A k \in DTasks : dtasks[k].pc = "fb_next" => ~dtasks[k].stale)
    /\ [][C20_Step]_vars

\* Task k of forward.rs is about to load the data for a registered CLA and
\* the blob is gone.
DataGone(k) ==
    /\ dtasks[k].pc = "clas"
    /\ dtasks[k].clas # <<>>
    /\ Head(dtasks[k].clas) # "gone"
    /\ BlobLoad(MetaLoad(dtasks[k].id).storage_name) = NoData
\* C21: if the bundle's data blob cannot be loaded while forwarding,
\* forward_bundle ends with Drop(DepletedStorage).
C21_DepletedStorageDrop ==
    [][\A k \in DTasks :
          (DataGone(k) /\ dtasks'[k] # dtasks[k]) =>
              /\ dtasks'[k].pc = "returned"
              /\ dtasks'[k].result = "Drop"
              /\ dtasks'[k].reason = "DepletedStorage"]_vars

ForwardedReportOf(id) ==
    Report("forwarded", id, "NoAdditionalInformation")
DeletionReportsOf(id, bag) ==
    {r \in BagToSet(bag) : r.kind = "deleted" /\ r.id = id}
\* The CLA answers Sent to task k.
SentStep(k) ==
    /\ dtasks[k].pc = "clas"
    /\ dtasks'[k].pc = "returned"
    /\ dtasks'[k].result = "Drop"
    /\ dtasks'[k].reason = NoReason
    /\ dtasks'[k].handed = dtasks[k].handed + 1
\* forward_bundle has returned Drop(None) to process_bundle after Sent.
AfterSent(k) ==
    /\ dtasks[k].pc = "returned"
    /\ dtasks[k].op # "forward_bundle"
    /\ dtasks[k].result = "Drop"
    /\ dtasks[k].reason = NoReason
    /\ dtasks[k].handed = 1
C22_Step ==
    \A k \in DTasks :
        /\ SentStep(k) =>
              reports' = reports (+)
                 (IF ReportWanted("forwarded", dtasks[k].id)
                  THEN SetToBag({ForwardedReportOf(dtasks[k].id)})
                  ELSE EmptyBag)
        /\ (AfterSent(k) /\ dtasks'[k] # dtasks[k]) =>
              /\ dtasks'[k].pc = "done"
              /\ reports' = reports
              /\ \E r \in rows' : r.id = dtasks[k].id /\ r.status = "Tombstone"
              /\ \A r \in rows' : r.id = dtasks[k].id => r.status = "Tombstone"
\* C22: when a CLA returns Sent, exactly one forwarded report is emitted if
\* the bundle requests it and status reports are enabled and none otherwise,
\* the drop that follows emits no deletion report, and it leaves the bundle
\* as a Tombstone; every Sent is covered, after a congestion wait or not.
C22_SentEndsAsTombstone ==
    [][C22_Step]_vars
C22_Witness ==
    \E k \in DTasks :
        /\ AfterSent(k)
        /\ ReportWanted("forwarded", dtasks[k].id)
        /\ CopiesIn(ForwardedReportOf(dtasks[k].id), reports) = 1
        /\ DeletionReportsOf(dtasks[k].id, reports) = {}

\* ------------------------------------------------------ the report functions
\* report_bundle_reception, _forwarded, _delivered and _deleted of
\* dispatcher.rs, called on a bundle with any flags; at most MaxReports
\* reports are created.
MaxReports == 2
DropReasons == {"LifetimeExpired", "DepletedStorage"}
\* The call of `op` on `id` by task k, which passes `made` on to
\* dispatch_status_report; `result` records whether it got that far.
ReportCall(k, op, id, made) ==
    /\ dtasks[k].pc \in {"idle", "done"}
    /\ BagCardinality(reports) < MaxReports
    /\ reports' = reports (+) made
    /\ dtasks' = [dtasks EXCEPT ![k] =
         [NoDTask EXCEPT !.op = op, !.id = id, !.pc = "done",
                         !.result = IF made = EmptyBag THEN "none"
                                    ELSE "created"]]
    /\ UNCHANGED <<storeVars, cfgVars, dispatched, calls, scanVars, config, ack>>
ReportBundleReception(k, id, reason) ==
    ReportCall(k, "report_bundle_reception", id,
               ReportIf("received", id, reason))
ReportBundleForwarded(k, id) ==
    ReportCall(k, "report_bundle_forwarded", id,
               ReportIf("forwarded", id, "NoAdditionalInformation"))
ReportBundleDelivered(k, id) ==
    ReportCall(k, "report_bundle_delivered", id, DeliveredReport(id))
ReportBundleDeleted(k, id, reason) ==
    ReportCall(k, "report_bundle_deleted", id, ReportIf("deleted", id, reason))

InitReport ==
    /\ blobs = [n \in Names |-> IF n = 1 THEN [id |-> "b1", form |-> "canonical"]
                                ELSE NoData]
    /\ rows = {LiveRow("b1", 1, "canonical")}
    /\ unconfirmed = {}
    /\ nextName = 2
    /\ reports = EmptyBag
    /\ statusReports \in BOOLEAN
    /\ clock = NoClock
    /\ queued = NoQueued
    /\ clas = NoClas
    /\ \E f \in SUBSET AllKinds : flags = [i \in Ids |-> f]
    /\ expired = {}
    /\ dispatched = {}
    /\ calls = [c \in Calls |-> IdleCall]
    /\ main = MainServing
    /\ tasks = [n \in Names |-> NoTask]
    /\ cancelled = FALSE
    /\ snap = NoSnap
    /\ DispatcherIdle
NextReport ==
    \/ \E k \in DTasks, r \in {"NoAdditionalInformation"} :
         ReportBundleReception(k, "b1", r)
    \/ \E k \in DTasks : ReportBundleForwarded(k, "b1")
    \/ \E k \in DTasks : ReportBundleDelivered(k, "b1")
    \/ \E k \in DTasks, r \in DropReasons : ReportBundleDeleted(k, "b1", r)
SpecReport == InitReport /\ [][NextReport]_vars

\* The event a report function reports.
EventOf(op) ==
    CASE op = "report_bundle_reception" -> "received"
      [] op = "report_bundle_forwarded" -> "forwarded"
      [] op = "report_bundle_delivered" -> "delivered"
      [] op = "report_bundle_deleted" -> "deleted"
ReportOps ==
    {"report_bundle_reception", "report_bundle_forwarded",
     "report_bundle_delivered", "report_bundle_deleted"}
\* C23: each of the four report functions creates a status-report bundle
\* iff status_reports is enabled and the bundle's request flag for that same
\* event is set.
C23_ReportIffOwnFlag ==
    \A k \in DTasks :
        (dtasks[k].op \in ReportOps /\ dtasks[k].pc = "done") =>
            (dtasks[k].result = "created" <=>
                ReportWanted(EventOf(dtasks[k].op), dtasks[k].id))

\* Task k's call of collect returns Some((bundle_id, payload, expiry)).
CollectSome(k) ==
    /\ dtasks'[k] # dtasks[k]
    /\ dtasks'[k].op = "collect"
    /\ dtasks'[k].result = "some"
\* C24: a successful collect reports delivery and leaves the bundle as a
\* Tombstone, so that delivery of a bundle is reported at most once.
C24_CollectLeavesTombstone ==
    [][\A k \in DTasks :
          CollectSome(k) =>
              /\ \A r \in rows' : r.id = dtasks'[k].id => r.status = "Tombstone"
              /\ CopiesIn(Report("delivered", dtasks'[k].id,
                                 "NoAdditionalInformation"), reports') <= 1]_vars

\* ------------------------------------------------------------- check_bundle
\* check_bundle of ingress.rs on a stored bundle with a hop-count block or
\* none and up to MaxBlocks extension blocks, called with the reason parsing
\* found or with none.
MaxHop == 2
MaxBlocks == 2
NoHop == [present |-> FALSE, count |-> 0, limit |-> 0]
HopInfos ==
    {NoHop} \cup [present : {TRUE}, count : 0..MaxHop, limit : 0..MaxHop]
\* An extension block: whether its type is BlockType::Unrecognised, and the
\* two block flags check_extension_blocks reads.
Blocks ==
    [unrecognised : BOOLEAN, report_on_failure : BOOLEAN,
     delete_bundle_on_failure : BOOLEAN]
BlockLists ==
    UNION {[1..n -> Blocks] : n \in 0..MaxBlocks}
ParseReasons == {NoReason, "BlockUnintelligible"}
RECURSIVE CheckExtensionBlocks(_, _, _)

\* check_bundle, "Check some basic semantic validity, lifetime first".
CheckSemantic_HopFirst(id, hop) ==
    IF hop.present /\ hop.count >= hop.limit THEN "HopLimitExceeded"
    ELSE IF id \in expired THEN "LifetimeExpired"
    ELSE NoReason
CheckSemantic(id, hop) ==
    IF id \in expired THEN "LifetimeExpired"
    ELSE IF hop.present /\ hop.count >= hop.limit THEN "HopLimitExceeded"
    ELSE NoReason

\* check_extension_blocks from block i on: the reason it returns and whether
\* it has reported BlockUnsupported ("Only report once!").
CheckExtensionBlocks(blocks, i, unsupported) ==
    IF i > Len(blocks)
    THEN [reason |-> NoReason, unsupported |-> unsupported]
    ELSE IF ~blocks[i].unrecognised
    THEN CheckExtensionBlocks(blocks, i + 1, unsupported)
    ELSE LET seen == unsupported \/ blocks[i].report_on_failure IN
         IF blocks[i].delete_bundle_on_failure
         THEN [reason |-> "BlockUnsupported", unsupported |-> seen]
         ELSE CheckExtensionBlocks(blocks, i + 1, seen)

\* The call check_bundle(bundle, reason) in progress.
CheckCall(id, reason, hop, blocks) ==
    [op |-> "check_bundle", pc |-> "check", id |-> id, given |-> reason,
     reason |-> reason, hop |-> hop, blocks |-> blocks]

\* check_bundle up to the reason: the semantic checks and the extension
\* blocks are looked at only while no reason is known.
CheckBundleReason(k) ==
    LET t == dtasks[k]
        semantic == IF t.reason # NoReason THEN t.reason
                    ELSE CheckSemantic(t.id, t.hop)
        ext == IF semantic # NoReason
               THEN [reason |-> semantic, unsupported |-> FALSE]
               ELSE CheckExtensionBlocks(t.blocks, 1, FALSE) IN
    /\ t.op = "check_bundle"
    /\ t.pc = "check"
    /\ reports' = reports (+)
         (IF ext.unsupported THEN ReportIf("received", t.id, "BlockUnsupported")
          ELSE EmptyBag)
    /\ dtasks' = [dtasks EXCEPT ![k] = [t EXCEPT !.pc = "decide",
                                                 !.reason = ext.reason]]
    /\ UNCHANGED <<storeVars, cfgVars, dispatched, calls, scanVars, config, ack>>

\* check_bundle: "Not valid, drop it", or "Now process in parallel".
CheckBundleEnd(k) ==
    LET t == dtasks[k] IN
    /\ t.op = "check_bundle"
    /\ t.pc = "decide"
    /\ IF t.reason # NoReason
       THEN /\ DropBundle(t.id, t.reason)
            /\ UNCHANGED dispatched
       ELSE /\ dispatched' = dispatched \cup {t.id}
            /\ UNCHANGED <<blobs, rows, reports>>
    /\ dtasks' = [dtasks EXCEPT ![k] = [t EXCEPT !.pc = "done"]]
    /\ UNCHANGED <<unconfirmed, nextName, cfgVars, calls, scanVars, config, ack>>

InitCheck ==
    /\ blobs = [n \in Names |-> IF n = 1 THEN [id |-> "b1", form |-> "canonical"]
                                ELSE NoData]
    /\ rows = {LiveRow("b1", 1, "canonical")}
    /\ unconfirmed = {}
    /\ nextName = 2
    /\ reports = EmptyBag
    /\ statusReports \in BOOLEAN
    /\ clock = NoClock
    /\ queued = NoQueued
    /\ clas = NoClas
    /\ flags = [i \in Ids |-> AllKinds]
    /\ expired \in {{}, {"b1"}}
    /\ dispatched = {}
    /\ calls = [c \in Calls |-> IdleCall]
    /\ main = MainServing
    /\ tasks = [n \in Names |-> NoTask]
    /\ cancelled = FALSE
    /\ snap = NoSnap
    /\ config = DefaultConfig
    /\ ack = [i \in Ids |-> NoAck]
    /\ \E reason \in ParseReasons, hop \in HopInfos, blocks \in BlockLists :
         dtasks = [k \in DTasks |->
            IF k = 1 THEN CheckCall("b1", reason, hop, blocks) ELSE NoDTask]
NextCheck ==
    \/ \E k \in DTasks : CheckBundleReason(k)
    \/ \E k \in DTasks : CheckBundleEnd(k)
SpecCheck == InitCheck /\ [][NextCheck]_vars

\* The reason the claim gives check_bundle for the call t.
ExpectedReason(t) ==
    IF t.given # NoReason THEN t.given
    ELSE IF t.id \in expired THEN "LifetimeExpired"
    ELSE IF t.hop.present /\ t.hop.count >= t.hop.limit THEN "HopLimitExceeded"
    ELSE IF \E i \in DOMAIN t.blocks :
               t.blocks[i].unrecognised /\ t.blocks[i].delete_bundle_on_failure
    THEN "BlockUnsupported"
    ELSE NoReason
Checked(k) ==
    dtasks[k].op = "check_bundle" /\ dtasks[k].pc = "done"
\* C25: check_bundle drops a bundle (tombstone, deletion report if wanted)
\* with the reason parsing found, else LifetimeExpired when expired, else
\* HopLimitExceeded when count >= limit, else BlockUnsupported when an
\* unrecognised block has delete_bundle_on_failure; only a bundle with no
\* reason is dispatched.
C25_CheckBundleReasons ==
    \A k \in DTasks :
        Checked(k) =>
            LET t == dtasks[k]
                why == ExpectedReason(t) IN
            /\ t.reason = why
            /\ t.id \in dispatched <=> why = NoReason
            /\ MetaLoad(t.id).status = "Tombstone" <=> why # NoReason
            /\ DeletionReportsOf(t.id, reports) =
                  IF why # NoReason /\ ReportWanted("deleted", t.id)
                  THEN {Report("deleted", t.id, why)} ELSE {}
\* A bundle past its hop limit that also carries an unrecognised block to be
\* deleted on failure has been dropped with HopLimitExceeded.
C25_Witness ==
    \E k \in DTasks :
        /\ Checked(k)
        /\ dtasks[k].reason = "HopLimitExceeded"
        /\ \E i \in DOMAIN dtasks[k].blocks :
              /\ dtasks[k].blocks[i].unrecognised
              /\ dtasks[k].blocks[i].delete_bundle_on_failure
        /\ MetaLoad(dtasks[k].id).status = "Tombstone"

\* The receive_bundle call c was given bytes that parse as Invalid and has
\* returned.
InvalidDone(c) ==
    /\ calls[c].op = "receive_bundle"
    /\ calls[c].pc = "done"
    /\ Parse(calls[c].input).kind = "Invalid"
UnintelligibleReport(id) ==
    Report("deleted", id, "BlockUnintelligible")
\* What C26 says of the bundle `id` received by call c.
TombstonedUnstored(c, id) ==
    /\ MetaLoad(id).status = "Tombstone"
    /\ MetaLoad(id).storage_name = NoName
    /\ ReportWanted("deleted", id) =>
          CopiesIn(UnintelligibleReport(id), reports) >= 1
    /\ id \notin dispatched
\* C26 as stated: for a bundle that parses as Invalid receive_bundle writes
\* no blob, records a row with status Tombstone and no storage name, drops
\* the bundle with BlockUnintelligible and never dispatches it.
C26_InvalidRecordedAsTombstone ==
    \A c \in Calls :
        InvalidDone(c) =>
            /\ calls[c].written = NoData
            /\ calls[c].name = NoName
            /\ TombstonedUnstored(c, calls[c].id)
\* C26, amended: the same, unless a row with that BundleId is already stored
\* when the metadata is written; then the call records, drops and
\* dispatches nothing and the stored row stands.
C26_InvalidRecordedUnlessDuplicate ==
    \A c \in Calls :
        InvalidDone(c) =>
            /\ calls[c].written = NoData
            /\ calls[c].name = NoName
            /\ calls[c].result \in {"stored", "duplicate"}
            /\ calls[c].result = "stored" => TombstonedUnstored(c, calls[c].id)
C26_Witness ==
    \E c \in Calls :
        /\ InvalidDone(c)
        /\ calls[c].result = "stored"
        /\ ReportWanted("deleted", calls[c].id)
        /\ TombstonedUnstored(c, calls[c].id)

\* ----------------------------------------------------------- the CLA registry
\* ClaRegistry and Endpoint of cla_registry.rs and the receive_bundle of
\* services/cla_sink.rs; the callers are the tasks of DTasks.
ClaTask(op, pc, name, ident, token, endpoint, result) ==
    [op |-> op, pc |-> pc, name |-> name, ident |-> ident, token |-> token,
     endpoint |-> endpoint, result |-> result]
Free(k) ==
    dtasks[k].pc \in {"idle", "done"}
\* The call has returned `result`; of its locals the token is kept.
ClaDone(t, token, result) ==
    ClaTask(t.op, "done", "none", "none", token, NoChannel, result)
Registered ==
    {t \in Tokens : clas.clas_by_token[t] # NoCla}

\* register, "Connect to client gRPC address": a new channel behind its own
\* Mutex, or invalid_argument.
RegisterConnect(k, name, ident, connects) ==
    /\ main.grpc
    /\ Free(k)
    /\ clas.connected < MaxChannels
    /\ IF connects
       THEN /\ clas' = [clas EXCEPT !.connected = @ + 1]
            /\ dtasks' = [dtasks EXCEPT ![k] =
                 ClaTask("register", "insert", name, ident, NoToken,
                         clas.connected + 1, "none")]
       ELSE /\ clas' = clas
            /\ dtasks' = [dtasks EXCEPT ![k] =
                 ClaTask("register", "done", "none", "none", NoToken,
                         NoChannel, "invalid_argument")]
    /\ UNCHANGED <<storeVars, reports, statusReports, flags, expired, clock,
                   queued, dispatched, calls, scanVars, config, ack>>

\* register, "Do a linear search for re-registration with the same name".
Conflict_SameIdent(ident) ==
    \E t \in Registered : clas.clas_by_token[t].ident = ident
Conflict(ident) ==
    \E t \in Registered : clas.clas_by_token[t].ident # ident

\* register under the write lock: `token` is what the "Check token is
\* unique" loop ends with.
RegisterInsert(k, token) ==
    LET t == dtasks[k]
        cla == [token |-> token, name |-> t.name, ident |-> t.ident,
                endpoint |-> t.endpoint] IN
    /\ t.op = "register"
    /\ t.pc = "insert"
    /\ token \in Tokens \ Registered
    /\ IF Conflict(t.ident)
       THEN /\ clas' = clas
            /\ dtasks' = [dtasks EXCEPT ![k] =
                 ClaDone(t, NoToken, "already_exists")]
       ELSE /\ clas' = [clas EXCEPT !.clas_by_token[token] = cla,
                                    !.clas_by_name[t.name] = cla]
            /\ dtasks' = [dtasks EXCEPT ![k] =
                 ClaDone(t, token, "ok")]
    /\ UNCHANGED <<storeVars, reports, statusReports, flags, expired, clock,
                   queued, dispatched, calls, scanVars, config, ack>>

\* unregister: the token's entry is removed, then the entry of its name.
Unregister(k, token) ==
    LET cla == clas.clas_by_token[token]
        named == IF cla = NoCla THEN NoCla ELSE clas.clas_by_name[cla.name] IN
    /\ main.grpc
    /\ Free(k)
    /\ clas' = IF cla = NoCla THEN clas
               ELSE [clas EXCEPT !.clas_by_token[token] = NoCla,
                                 !.clas_by_name[cla.name] = NoCla]
    /\ dtasks' = [dtasks EXCEPT ![k] =
         ClaTask("unregister", "done", "none", "none", token, NoChannel,
                 IF named = NoCla THEN "not_found" ELSE "ok")]
    /\ UNCHANGED <<storeVars, reports, statusReports, flags, expired, clock,
                   queued, dispatched, calls, scanVars, config, ack>>

\* ClaSink::receive_bundle: find_by_token(&request.token)?
FindByToken_AnyToken(k, token) ==
    /\ main.grpc
    /\ Free(k)
    /\ dtasks' = [dtasks EXCEPT ![k] =
         ClaTask("receive_bundle", "receive", "none", "none", token, NoChannel,
                 "found")]
    /\ UNCHANGED <<storeVars, reports, cfgVars, dispatched, calls, scanVars,
                   config, ack>>
FindByToken(k, token) ==
    LET cla == clas.clas_by_token[token] IN
    /\ main.grpc
    /\ Free(k)
    /\ dtasks' = [dtasks EXCEPT ![k] =
         IF cla = NoCla
         THEN ClaTask("receive_bundle", "done", "none", "none", token,
                      NoChannel, "not_found")
         ELSE ClaTask("receive_bundle", "receive", cla.name, "none", token,
                      NoChannel, "found")]
    /\ UNCHANGED <<storeVars, reports, cfgVars, dispatched, calls, scanVars,
                   config, ack>>

\* ClaSink::receive_bundle: the bundle goes to the ingress as call c.
IngressReceive(k, c, bytes) ==
    /\ dtasks[k].op = "receive_bundle"
    /\ dtasks[k].pc = "receive"
    /\ calls[c].pc = "idle"
    /\ calls' = [calls EXCEPT ![c] = ReceiveBegun(bytes)]
    /\ dtasks' = [dtasks EXCEPT ![k] =
         ClaDone(dtasks[k], dtasks[k].token, "received")]
    /\ UNCHANGED <<storeVars, reports, cfgVars, dispatched, scanVars, config,
                   ack>>

\* find_by_name: an Endpoint sharing the CLA's channel, or None.
FindByName(k, name) ==
    LET cla == clas.clas_by_name[name] IN
    /\ Free(k)
    /\ dtasks' = [dtasks EXCEPT ![k] =
         IF cla = NoCla
         THEN ClaTask("forward_bundle", "done", "none", "none", NoToken,
                      NoChannel, "none")
         ELSE ClaTask("forward_bundle", "lock", name, "none", cla.token,
                      cla.endpoint, "none")]
    /\ UNCHANGED <<storeVars, reports, cfgVars, dispatched, calls, scanVars,
                   config, ack>>

\* Endpoint::forward_bundle: self.inner.lock().await
EndpointLock_NoWait(k) ==
    /\ dtasks[k].op = "forward_bundle"
    /\ dtasks[k].pc = "lock"
    /\ clas' = [clas EXCEPT !.locked = @ \cup {dtasks[k].endpoint}]
    /\ dtasks' = [dtasks EXCEPT ![k].pc = "rpc"]
    /\ UNCHANGED <<storeVars, reports, statusReports, flags, expired, clock,
                   queued, dispatched, calls, scanVars, config, ack>>
EndpointLock(k) ==
    /\ dtasks[k].op = "forward_bundle"
    /\ dtasks[k].pc = "lock"
    /\ dtasks[k].endpoint \notin clas.locked
    /\ clas' = [clas EXCEPT !.locked = @ \cup {dtasks[k].endpoint}]
    /\ dtasks' = [dtasks EXCEPT ![k].pc = "rpc"]
    /\ UNCHANGED <<storeVars, reports, statusReports, flags, expired, clock,
                   queued, dispatched, calls, scanVars, config, ack>>

\* Endpoint::forward_bundle: the RPC's answer arrives and the guard is
\* dropped with the statement.
EndpointReturn(k, ok) ==
    /\ dtasks[k].op = "forward_bundle"
    /\ dtasks[k].pc = "rpc"
    /\ clas' = [clas EXCEPT !.locked = @ \ {dtasks[k].endpoint}]
    /\ dtasks' = [dtasks EXCEPT ![k] =
         ClaDone(dtasks[k], NoToken, IF ok THEN "ok" ELSE "error")]
    /\ UNCHANGED <<storeVars, reports, statusReports, flags, expired, clock,
                   queued, dispatched, calls, scanVars, config, ack>>

\* The ingress call the gRPC service makes, and the bundle it is given.
ClaCalls == {1}
ClaBytes == {[id |-> "b1", form |-> "canonical"]}
InitCla ==
    /\ InitStore
    /\ statusReports = TRUE
    /\ flags = [i \in Ids |-> AllKinds]
NextCla ==
    \/ \E k \in DTasks, name \in ClaNames, ident \in ClaIdents,
          connects \in BOOLEAN : RegisterConnect(k, name, ident, connects)
    \/ \E k \in DTasks, token \in Tokens : RegisterInsert(k, token)
    \/ \E k \in DTasks, token \in Tokens : Unregister(k, token)
    \/ \E k \in DTasks, token \in Tokens : FindByToken(k, token)
    \/ \E k \in DTasks, c \in ClaCalls, bytes \in ClaBytes :
          IngressReceive(k, c, bytes)
    \/ \E k \in DTasks, name \in ClaNames : FindByName(k, name)
    \/ \E k \in DTasks : EndpointLock(k)
    \/ \E k \in DTasks, ok \in BOOLEAN : EndpointReturn(k, ok)
    \/ \E c \in ClaCalls : StoreData(c)
    \/ \E c \in ClaCalls : ReceiveInnerReport(c)
    \/ \E c \in ClaCalls : ReceiveInnerStoreMetadata(c)
    \/ \E c \in ClaCalls : ReceiveInnerCheck(c)
SpecCla == InitCla /\ [][NextCla]_vars

\* Task k's register call leaves its locked section.
RegisterStep(k) ==
    /\ dtasks[k].op = "register"
    /\ dtasks[k].pc = "insert"
    /\ dtasks'[k].pc = "done"
\* C27: register fails with already_exists exactly when a CLA with the same
\* ident is already registered; otherwise it succeeds and adds the CLA
\* alongside the registered ones.
C27_RegisterConflictOnSameIdent ==
    [][\A k \in DTasks :
          RegisterStep(k) =>
              LET same == \E t \in Registered :
                             clas.clas_by_token[t].ident = dtasks[k].ident IN
              /\ dtasks'[k].result = "already_exists" <=> same
              /\ ~same =>
                    /\ dtasks'[k].result = "ok"
                    /\ dtasks'[k].token \in Tokens \ Registered
                    /\ clas'.clas_by_token[dtasks'[k].token].ident =
                          dtasks[k].ident
                    /\ \A t \in Registered :
                          clas'.clas_by_token[t] = clas.clas_by_token[t]]_vars

\* Task k's receive_bundle call looks its token up.
LookupStep(k) ==
    /\ Free(k)
    /\ dtasks'[k] # dtasks[k]
    /\ dtasks'[k].op = "receive_bundle"
C28_Step ==
    /\ \A k \in DTasks :
          LookupStep(k) =>
              IF dtasks'[k].token \in Registered
              THEN dtasks'[k].result = "found"
              ELSE /\ dtasks'[k].result = "not_found"
                   /\ dtasks'[k].pc = "done"
                   /\ UNCHANGED <<storeVars, reports, dispatched, calls>>
    /\ \A c \in Calls :
          (calls[c].pc = "idle" /\ calls'[c].pc # "idle") =>
              \E k \in DTasks : /\ dtasks[k].op = "receive_bundle"
                                /\ dtasks[k].result = "found"
                                /\ dtasks'[k].result = "received"
TokensDistinct ==
    /\ \A t \in Registered : clas.clas_by_token[t].token = t
    /\ \A t1, t2 \in Registered :
          t1 # t2 => clas.clas_by_token[t1].endpoint # clas.clas_by_token[t2].endpoint
\* C28: receive_bundle is accepted only when the quoted token belongs to a
\* currently registered CLA; distinct registered CLAs have distinct tokens;
\* any other token yields not_found with nothing stored or dispatched.
C28_OnlyRegisteredTokens ==
    []TokensDistinct /\ [][C28_Step]_vars
\* A token that was issued and has been unregistered was answered not_found.
C28_Witness ==
    \E k1, k2 \in DTasks :
        /\ dtasks[k1].op = "unregister"
        /\ dtasks[k1].result = "ok"
        /\ dtasks[k2].op = "receive_bundle"
        /\ dtasks[k2].result = "not_found"
        /\ dtasks[k2].token = dtasks[k1].token
        /\ rows = {}
        /\ dispatched = {}

InFlight(ch) ==
    {k \in DTasks : /\ dtasks[k].op = "forward_bundle"
                    /\ dtasks[k].pc = "rpc"
                    /\ dtasks[k].endpoint = ch}
\* C29: at most one forward_bundle RPC is in flight on a CLA's channel at
\* any time, and the channel's mutex is held while it is.
C29_OneRpcPerChannel ==
    \A ch \in Channels :
        /\ Cardinality(InFlight(ch)) <= 1
        /\ InFlight(ch) # {} => ch \in clas.locked
\* One forward is in flight on a channel while another, to the same CLA,
\* waits for the mutex.
C29_Witness ==
    \E k1, k2 \in DTasks :
        /\ dtasks[k1].op = "forward_bundle"
        /\ dtasks[k1].pc = "rpc"
        /\ InFlight(dtasks[k1].endpoint) = {k1}
        /\ dtasks[k2].op = "forward_bundle"
        /\ dtasks[k2].pc = "lock"
        /\ dtasks[k2].endpoint = dtasks[k1].endpoint

\* Task k is in a retry sleep or an inline wait.
Asleep(k) ==
    dtasks[k].pc \in {"delay_sleep", "fb_sleep_fib", "fb_sleep_cong",
                      "fb_retry"}
C30_Step ==
    \A k \in DTasks :
        (cancelled /\ Asleep(k) /\ dtasks'[k] # dtasks[k]) =>
            /\ dtasks'[k].pc = "done"
            /\ UNCHANGED <<rows, blobs, reports, ack>>
\* C30: a task that the cancel signal finds in a retry sleep or an inline
\* wait returns without writing a status, deleting data or creating a
\* report.
C30_CancelledSleepLeavesStore ==
    [][C30_Step]_vars
\* A cancelled task has returned and left the bundle ForwardPending with
\* its data and without a report.
C30_Witness ==
    /\ cancelled
    /\ \E k \in DTasks : dtasks[k].pc = "done" /\ dtasks[k].id = "b1"
    /\ MetaLoad("b1").status = "ForwardPending"
    /\ BlobLoad(MetaLoad("b1").storage_name) # NoData
    /\ reports = EmptyBag

\* ------------------------------------------------------------------ Editor
\* With the agent at rest: every variable but dtasks, which holds the
\* object or call under study.
AtRest ==
    /\ blobs = [n \in Names |-> NoData]
    /\ rows = {}
    /\ unconfirmed = {}
    /\ nextName = 1
    /\ reports = EmptyBag
    /\ statusReports = TRUE
    /\ clock = NoClock
    /\ queued = NoQueued
    /\ clas = NoClas
    /\ flags = [i \in Ids |-> AllKinds]
    /\ expired = {}
    /\ dispatched = {}
    /\ calls = [c \in Calls |-> IdleCall]
    /\ main = MainServing
    /\ tasks = [n \in Names |-> NoTask]
    /\ cancelled = FALSE
    /\ snap = NoSnap
    /\ config = DefaultConfig
    /\ ack = [i \in Ids |-> NoAck]
restVars ==
    <<storeVars, reports, cfgVars, dispatched, calls, scanVars, config, ack>>

\* Editor of bpv7/src/editor.rs over a parsed bundle: block numbers up to
\* MaxNumber, up to MaxExt extension blocks in the source, up to MaxEdits
\* calls before build.
MaxNumber == 4
MaxExt == 2
MaxEdits == 2
Numbers == 0..MaxNumber
ExtNumbers == 2..MaxNumber
ExtTypes == {"HopCount", "PreviousNode"}
\* A block as it stands in the bytes: its number, type and flags, and
\* whether the bytes are the source's or a template's.
SourceBlock(n, type, fl) ==
    [number |-> n, type |-> type, flags |-> fl, bytes |-> "source"]
BuiltBlock(n, type, fl) ==
    [number |-> n, type |-> type, flags |-> fl, bytes |-> "built"]
ExtLists ==
    UNION {{l \in [1..n -> [number : ExtNumbers, type : ExtTypes,
                            flags : BOOLEAN, bytes : {"source"}]] :
              \A i, j \in 1..n : i # j => l[i].number # l[j].number} :
           n \in 0..MaxExt}
\* The source bytes: the primary block, the extension blocks, the payload.
SourceBundle(ext) ==
    <<SourceBlock(0, "Primary", FALSE)>> \o ext
        \o <<SourceBlock(1, "Payload", FALSE)>>
\* enum BlockTemplate.
NoTemplate == [kind |-> "none", type |-> "none", flags |-> FALSE]
Keep(type) == [kind |-> "Keep", type |-> type, flags |-> FALSE]
Add(type, fl) == [kind |-> "Add", type |-> type, flags |-> fl]
\* original.blocks.get(block_number)
OriginalBlock(original, n) ==
    original[CHOOSE i \in DOMAIN original : original[i].number = n]
\* Editor::new
EditorNew(original) ==
    [op |-> "Editor", pc |-> "editing", original |-> original,
     blocks |-> [n \in Numbers |->
        IF \E i \in DOMAIN original : original[i].number = n
        THEN Keep(OriginalBlock(original, n).type) ELSE NoTemplate],
     edits |-> 0, last |-> [call |-> "new", type |-> "none", number |-> 0,
                            flag |-> "default"],
     out |-> <<>>]
Keys(e) ==
    {n \in Numbers : e.blocks[n] # NoTemplate}
Editing(k) ==
    /\ dtasks[k].op = "Editor"
    /\ dtasks[k].pc = "editing"
    /\ dtasks[k].edits < MaxEdits

\* add_extension_block: "Find the lowest unused block_number".
LowestUnused_Highest(e) ==
    CHOOSE n \in ExtNumbers \ Keys(e) : \A m \in ExtNumbers \ Keys(e) : m <= n
LowestUnused(e) ==
    CHOOSE n \in ExtNumbers \ Keys(e) : \A m \in ExtNumbers \ Keys(e) : n <= m
\* The flags BlockBuilder::build inserts: the template's, or what a flag
\* method has set.
Chosen(flag, default) ==
    IF flag = "default" THEN default ELSE flag = "set"
FlagCalls == {"default", "set", "clear"}

\* add_extension_block(block_type) ... build(), called directly or by
\* replace_extension_block (`call`).
AddBlock(k, type, flag, call) ==
    LET e == dtasks[k]
        n == LowestUnused(e) IN
    /\ Editing(k)
    /\ ExtNumbers \ Keys(e) # {}
    /\ dtasks' = [dtasks EXCEPT ![k] =
         [e EXCEPT !.blocks[n] = Add(type, Chosen(flag, FALSE)),
                   !.edits = @ + 1,
                   !.last = [call |-> call, type |-> type, number |-> n,
                             flag |-> flag]]]
    /\ UNCHANGED restVars
AddExtensionBlock(k, type, flag) ==
    AddBlock(k, type, flag, "add")

\* replace_extension_block(block_type) ... build(): `n` is the block the
\* search of the HashMap finds, when there is a block of the type.
ReplaceExtensionBlock(k, type, n, flag) ==
    LET e == dtasks[k]
        found == {m \in Keys(e) : e.blocks[m].type = type}
        template == IF e.blocks[n].kind = "Keep"
                    THEN Add(type, OriginalBlock(e.original, n).flags)
                    ELSE e.blocks[n] IN
    /\ Editing(k)
    /\ IF found = {}
       THEN AddBlock(k, type, flag, "replace")
       ELSE /\ n \in found
            /\ dtasks' = [dtasks EXCEPT ![k] =
                 [e EXCEPT !.blocks[n] = Add(type, Chosen(flag, template.flags)),
                           !.edits = @ + 1,
                           !.last = [call |-> "replace", type |-> type,
                                     number |-> n, flag |-> flag]]]
            /\ UNCHANGED restVars

\* remove_extension_block(block_number); 0 and 1 panic.
RemoveExtensionBlock(k, n) ==
    LET e == dtasks[k] IN
    /\ Editing(k)
    /\ dtasks' = [dtasks EXCEPT ![k] =
         IF n \in {0, 1}
         THEN [e EXCEPT !.pc = "panicked"]
         ELSE [e EXCEPT !.blocks[n] = NoTemplate, !.edits = @ + 1,
                        !.last = [call |-> "remove", type |-> "none",
                                  number |-> n, flag |-> "default"]]]
    /\ UNCHANGED restVars

\* build_block
BuildBlock(e, n) ==
    IF e.blocks[n].kind = "Keep" THEN OriginalBlock(e.original, n)
    ELSE BuiltBlock(n, e.blocks[n].type, e.blocks[n].flags)
\* The orders in which a HashMap with the keys S may be iterated.
Orders(S) ==
    {o \in [1..Cardinality(S) -> S] :
        \A i, j \in 1..Cardinality(S) : i # j => o[i] # o[j]}
\* Editor::build: the primary block, the other blocks as the HashMap yields
\* them, the payload block.
Build(k, order) ==
    LET e == dtasks[k] IN
    /\ e.op = "Editor"
    /\ e.pc = "editing"
    /\ order \in Orders(Keys(e) \ {0, 1})
    /\ dtasks' = [dtasks EXCEPT ![k] =
         [e EXCEPT !.pc = "built",
                   !.out = <<BuildBlock(e, 0)>>
                           \o [i \in DOMAIN order |-> BuildBlock(e, order[i])]
                           \o <<BuildBlock(e, 1)>>]]
    /\ UNCHANGED restVars

InitEditor ==
    /\ AtRest
    /\ \E ext \in ExtLists :
         dtasks = [k \in DTasks |->
            IF k = 1 THEN EditorNew(SourceBundle(ext)) ELSE NoDTask]
NextEditor ==
    \/ \E type \in ExtTypes, flag \in FlagCalls : AddExtensionBlock(1, type, flag)
    \/ \E type \in ExtTypes \cup {"Payload"}, n \in Numbers, flag \in FlagCalls :
          ReplaceExtensionBlock(1, type, n, flag)
    \/ \E n \in Numbers : RemoveExtensionBlock(1, n)
    \/ \E order \in UNION {Orders(S) : S \in SUBSET ExtNumbers} : Build(1, order)
SpecEditor == InitEditor /\ [][NextEditor]_vars

\* C31: an Editor built over a parsed bundle and built with no modification
\* yields the source bytes, whatever the number of extension blocks.
C31_UnmodifiedBuildIsIdentity ==
    (dtasks[1].op = "Editor" /\ dtasks[1].pc = "built" /\ dtasks[1].edits = 0)
        => dtasks[1].out = dtasks[1].original

\* The editor of task 1 has just returned from `call`.
Edited(call) ==
    /\ dtasks[1].op = "Editor"
    /\ dtasks'[1].edits = dtasks[1].edits + 1
    /\ dtasks'[1].last.call = call
OfType(e, type) ==
    {m \in Keys(e) : e.blocks[m].type = type}
\* The block of the last call got the lowest number from 2 on that was
\* unused before the call.
GotLowestUnused ==
    LET n == dtasks'[1].last.number IN
    /\ n >= 2
    /\ n \notin Keys(dtasks[1])
    /\ \A m \in 2..(n - 1) : m \in Keys(dtasks[1])
    /\ Keys(dtasks'[1]) = Keys(dtasks[1]) \cup {n}
    /\ dtasks'[1].blocks[n].type = dtasks'[1].last.type
\* The last call reused the number, and without a flag call the flags, of a
\* block of its type.
ReusedBlock ==
    LET n == dtasks'[1].last.number
        e == dtasks[1]
        was == IF e.blocks[n].kind = "Keep"
               THEN OriginalBlock(e.original, n).flags ELSE e.blocks[n].flags IN
    /\ n \in OfType(e, dtasks'[1].last.type)
    /\ Keys(dtasks'[1]) = Keys(e)
    /\ OfType(dtasks'[1], dtasks'[1].last.type) = OfType(e, dtasks'[1].last.type)
    /\ dtasks'[1].last.flag = "default" => dtasks'[1].blocks[n].flags = was
C32_Step ==
    /\ Edited("add") => GotLowestUnused
    /\ Edited("replace") =>
          IF OfType(dtasks[1], dtasks'[1].last.type) # {}
          THEN ReusedBlock ELSE GotLowestUnused
HasPrimaryAndPayload ==
    dtasks[1].op = "Editor" => {0, 1} \subseteq Keys(dtasks[1])
\* C32: after any sequence of add, replace and remove calls the editor's
\* blocks contain 0 and 1, every added block got the lowest unused number
\* from 2 on, and replace reuses the number and flags of a block of the
\* type when there is one.
C32_EditorBlockNumbers ==
    []HasPrimaryAndPayload /\ [][C32_Step]_vars
\* A block of the source was removed and a block was then added in its
\* place, below a number still in use.
C32_Witness ==
    /\ dtasks[1].op = "Editor"
    /\ dtasks[1].edits = 2
    /\ dtasks[1].last.call = "add"
    /\ dtasks[1].last.number = 2
    /\ 3 \in Keys(dtasks[1])

------------------------------------------------------------------------------
\* Block CRC values: parse_crc_value of the bpv7 crate and of the bpa crate.

MaxBody == 2
MaxCrcLen == 5
CrcTypes == {"None", "CRC16_X25", "CRC32_CASTAGNOLI"}
CrcWidth(crc_type) ==
    CASE crc_type = "CRC16_X25" -> 2
      [] crc_type = "CRC32_CASTAGNOLI" -> 4
      [] OTHER -> 0
RECURSIVE Sum(_, _)
\* Weighted sum of the bytes of data from position i on.
Sum(data, i) ==
    IF i > Len(data) THEN 0 ELSE (i + 1) * data[i] + 3 * Sum(data, i + 1)
Zeros(n) == [i \in 1..n |-> 0]
\* A checksum standing for the X25 and CASTAGNOLI digests, as the big-endian
\* bytes of the value: w bytes that depend on every byte of the data and on
\* its length.
Digest(w, data) ==
    [i \in 1..w |-> (Sum(data, 1) + Len(data) + 7 * i) % 256]
\* The last item of a block: nothing, a byte string, or another CBOR value.
NoCrcItem == [kind |-> "absent", bytes |-> <<>>]
CrcBytes(bytes) == [kind |-> "bytes", bytes |-> bytes]
\* append_crc_value: the digest of the block with the CRC bytes at zero.
AppendCrcValue(crc_type, body) ==
    Digest(CrcWidth(crc_type), body \o Zeros(CrcWidth(crc_type)))
Bodies == UNION {[1..n -> 0..1] : n \in 0..MaxBody}
\* The CRC items tried on a body: none, a value that is no byte string, and for
\* each length the digest of that width, right or with its last byte changed.
CrcItems(body) ==
    {NoCrcItem, [kind |-> "uint", bytes |-> <<>>]} \cup
    {CrcBytes([i \in 1..w |->
        (Digest(w, body \o Zeros(w))[i] + (IF i = w THEN d ELSE 0)) % 256]) :
        w \in 0..MaxCrcLen, d \in 0..1}
CrcParse(crc_type, body, item) ==
    [op |-> "Crc", pc |-> "parsing", crc_type |-> crc_type, body |-> body,
     item |-> item, by |-> "none", result |-> "none"]
CrcReturn(k, by, result) ==
    /\ dtasks' = [dtasks EXCEPT ![k] =
         [@ EXCEPT !.pc = "done", !.by = by, !.result = result]]
    /\ UNCHANGED restVars
\* hardy-bpv7 parse_crc_value
ParseCrcValue(k) ==
    LET t == dtasks[k]
        w == CrcWidth(t.crc_type)
        digest == Digest(w, t.body \o Zeros(w)) IN
    /\ t.op = "Crc" /\ t.pc = "parsing"
    /\ CrcReturn(k, "bpv7",
         CASE t.item.kind = "uint" -> "IncorrectType"
           [] t.item.kind = "bytes" /\ t.crc_type = "None" -> "UnexpectedCrcValue"
           [] t.item.kind = "bytes" /\ Len(t.item.bytes) # w -> "InvalidLength"
           [] t.item.kind = "bytes" /\ t.item.bytes # digest ->
                "IncorrectCrc"
           [] t.item.kind = "bytes" -> "ok"
           [] t.crc_type = "None" -> "ok"
           [] OTHER -> "MissingCrc")
\* hardy-bpa bundle::parse_crc_value
BundleParseCrcValue(k) ==
    LET t == dtasks[k]
        w == CrcWidth(t.crc_type)
        digest == Digest(w, t.body \o Zeros(Len(t.item.bytes))) IN
    /\ t.op = "Crc" /\ t.pc = "parsing"
    /\ CrcReturn(k, "bpa",
         CASE t.item.kind = "uint" -> "not a byte string"
           [] t.item.kind = "bytes" /\ t.crc_type = "None" -> "unexpected CRC value"
           [] t.item.kind = "bytes" /\ Len(t.item.bytes) # w ->
                "unexpected CRC value length"
           [] t.item.kind = "bytes" /\ t.item.bytes # digest ->
                "CRC check failed"
           [] OTHER -> "ok")
InitCrc ==
    /\ AtRest
    /\ \E crc_type \in CrcTypes, body \in Bodies :
         \E item \in CrcItems(body) :
            dtasks = [k \in DTasks |->
               IF k = 1 THEN CrcParse(crc_type, body, item) ELSE NoDTask]
NextCrc ==
    \/ ParseCrcValue(1)
    \/ BundleParseCrcValue(1)
SpecCrc == InitCrc /\ [][NextCrc]_vars

\* The block of task 1 carries the CRC its type asks for: none for None, for
\* CRC16 and CRC32 a byte string of 2 or 4 bytes holding the digest of the
\* block with the CRC bytes at zero.
CrcGood ==
    LET t == dtasks[1] IN
    IF t.crc_type = "None" THEN t.item.kind = "absent"
    ELSE /\ t.item.kind = "bytes"
         /\ Len(t.item.bytes) = CrcWidth(t.crc_type)
         /\ t.item.bytes = AppendCrcValue(t.crc_type, t.body)
\* C33: a block with CRC type CRC16 or CRC32 is accepted only with a CRC byte
\* string of 2 or 4 bytes equal to the CRC over the block with the CRC bytes
\* zeroed; a declared type without a value, a value with type None and a CRC
\* of the wrong length are rejected.
C33_CrcAcceptedOnlyIfRight ==
    (dtasks[1].op = "Crc" /\ dtasks[1].pc = "done" /\ dtasks[1].result = "ok")
        => CrcGood

\* The same, for the parser of the bpv7 crate alone.
Bpv7CrcAcceptedIffRight ==
    (dtasks[1].op = "Crc" /\ dtasks[1].pc = "done" /\ dtasks[1].by = "bpv7")
        => (dtasks[1].result = "ok" <=> CrcGood)

------------------------------------------------------------------------------
\* The bundle fuzz target: parse, canonicalise, parse again.

\* Bundle bytes by what the codec tells apart: the extension blocks in the
\* order of the bytes, the blocks with an encoding longer than needed (an
\* integer not at its minimum length, a superfluous tag, an indefinite
\* length where a definite one is permitted), and whether the blocks form a
\* valid bundle.
WireOrders == UNION {Orders(S) : S \in SUBSET ExtNumbers}
Range(seq) == {seq[i] : i \in 1..Len(seq)}
Wires ==
    UNION {[order : {o}, long : SUBSET ({0, 1} \cup Range(o)), valid : BOOLEAN] :
           o \in WireOrders}
RECURSIVE Ascending(_)
\* The numbers of S in ascending order.
Ascending(S) ==
    IF S = {} THEN <<>>
    ELSE LET n == CHOOSE m \in S : \A o \in S : m <= o IN
         <<n>> \o Ascending(S \ {n})
\* parse::<(ValidBundle, bool, usize)>: the classification and `shortest`.
ParseBundle(w) ==
    IF w.valid
    THEN [kind |-> "Valid", shortest |-> w.long = {}, blocks |-> Range(w.order)]
    ELSE [kind |-> "Invalid", shortest |-> w.long = {}, blocks |-> Range(w.order)]
\* Bundle::canonicalise: every block re-emitted in definite-length, shortest
\* form, primary first, the extension blocks in ascending block number, the
\* payload last.
BundleCanonicalise(w) ==
    [order |-> Ascending(Range(w.order)), long |-> {}, valid |-> TRUE]
FuzzInput(w) ==
    [op |-> "Fuzz", pc |-> "input", data |-> w, new_data |-> w, result |-> "none"]
\* fuzz_target!(|data: &[u8]| ...)
FuzzTarget(k) ==
    LET t == dtasks[k]
        p == ParseBundle(t.data)
        new_data == BundleCanonicalise(t.data)
        again == ParseBundle(new_data) IN
    /\ t.op = "Fuzz" /\ t.pc = "input"
    /\ dtasks' = [dtasks EXCEPT ![k] =
         IF p.kind # "Valid"
         THEN [t EXCEPT !.pc = "done", !.result = "skipped"]
         ELSE IF p.shortest
         THEN [t EXCEPT !.pc = "done", !.new_data = new_data,
                        !.result = IF t.data = new_data THEN "ok"
                                   ELSE "assert_eq failed"]
         ELSE [t EXCEPT !.pc = "done", !.new_data = new_data,
                        !.result = IF again.kind = "Valid" /\ again.shortest
                                   THEN "ok" ELSE "Rewrite borked"]]
    /\ UNCHANGED restVars
InitFuzz ==
    /\ AtRest
    /\ \E w \in Wires :
         dtasks = [k \in DTasks |-> IF k = 1 THEN FuzzInput(w) ELSE NoDTask]
NextFuzz ==
    FuzzTarget(1)
SpecFuzz == InitFuzz /\ [][NextFuzz]_vars

\* C34: for an input that parses as Valid, canonicalise returns the input
\* bytes when the parse reports shortest encoding, and otherwise bytes that
\* parse as Valid with shortest encoding.
C34_CanonicaliseFixesOrKeeps ==
    (dtasks[1].op = "Fuzz" /\ dtasks[1].pc = "done"
       /\ ParseBundle(dtasks[1].data).kind = "Valid")
        => IF ParseBundle(dtasks[1].data).shortest
           THEN dtasks[1].new_data = dtasks[1].data
           ELSE /\ ParseBundle(dtasks[1].new_data).kind = "Valid"
                /\ ParseBundle(dtasks[1].new_data).shortest

------------------------------------------------------------------------------
\* The hop count from check_bundle to the CLAs: task 1 checks the bundle,
\* task 2 forwards it once it is dispatched.

MaxAttempts == 3
\* forward_bundle's side of the bundle: the hop-count blocks handed to CLAs
\* and the number of forward_bundle calls made on CLAs.
HopForwarder(pc) ==
    [op |-> "hop_forward", pc |-> pc, egress |-> {}, attempts |-> 0]
\* update_extension_blocks: the hop-count block of the egress bytes, built
\* from the stored bundle.
UpdateExtensionBlocks_Twice(hop) ==
    IF hop.present THEN [hop EXCEPT !.count = @ + 2] ELSE hop
UpdateExtensionBlocks(hop) ==
    IF hop.present THEN [hop EXCEPT !.count = @ + 1] ELSE hop
\* dispatch_bundle hands the checked bundle to forward_bundle.
HopDispatch(k) ==
    /\ dtasks[k].op = "hop_forward"
    /\ dtasks[k].pc = "idle"
    /\ dtasks[1].op = "check_bundle"
    /\ dtasks[1].id \in dispatched
    /\ dtasks' = [dtasks EXCEPT ![k] = [@ EXCEPT !.pc = "clas"]]
    /\ UNCHANGED restVars
\* forward_bundle, one CLA of the action: the data is loaded from the store,
\* updated and handed to the CLA.  After Congested or an error the next CLA
\* or the next round of the loop follows.
HopForwardCla(k, kind) ==
    LET f == dtasks[k]
        data == UpdateExtensionBlocks(dtasks[1].hop) IN
    /\ f.op = "hop_forward"
    /\ f.pc = "clas"
    /\ f.attempts < MaxAttempts
    /\ dtasks' = [dtasks EXCEPT ![k] =
         [f EXCEPT !.egress = @ \cup {data},
                   !.attempts = @ + 1,
                   !.pc = CASE kind = "Sent" -> "sent"
                            [] kind = "Pending" -> "pending"
                            [] OTHER -> "clas"]]
    /\ UNCHANGED restVars
\* The acknowledgement did not come in time: the bundle is dispatched and
\* forwarded again.
HopAckTimeout(k) ==
    /\ dtasks[k].op = "hop_forward"
    /\ dtasks[k].pc = "pending"
    /\ dtasks' = [dtasks EXCEPT ![k] = [@ EXCEPT !.pc = "clas"]]
    /\ UNCHANGED restVars
InitHop ==
    /\ blobs = [n \in Names |-> IF n = 1 THEN [id |-> "b1", form |-> "canonical"]
                                ELSE NoData]
    /\ rows = {LiveRow("b1", 1, "canonical")}
    /\ unconfirmed = {}
    /\ nextName = 2
    /\ reports = EmptyBag
    /\ statusReports = TRUE
    /\ clock = NoClock
    /\ queued = NoQueued
    /\ clas = NoClas
    /\ flags = [i \in Ids |-> AllKinds]
    /\ expired \in {{}, {"b1"}}
    /\ dispatched = {}
    /\ calls = [c \in Calls |-> IdleCall]
    /\ main = MainServing
    /\ tasks = [n \in Names |-> NoTask]
    /\ cancelled = FALSE
    /\ snap = NoSnap
    /\ config = DefaultConfig
    /\ ack = [i \in Ids |-> NoAck]
    /\ \E reason \in ParseReasons, hop \in HopInfos, blocks \in BlockLists :
         dtasks = [k \in DTasks |->
            IF k = 1 THEN CheckCall("b1", reason, hop, blocks)
            ELSE HopForwarder("idle")]
NextHop ==
    \/ CheckBundleReason(1)
    \/ CheckBundleEnd(1)
    \/ HopDispatch(2)
    \/ \E kind \in {"Sent", "Pending", "Congested", "Err"} : HopForwardCla(2, kind)
    \/ HopAckTimeout(2)
    \/ Expire("b1")
SpecHop == InitHop /\ [][NextHop]_vars

\* Every hop-count block handed to a CLA counts one more than the stored one.
EgressCountsOneMore ==
    \A e \in dtasks[2].egress :
        e = [dtasks[1].hop EXCEPT !.count = @ + 1]
OverLimit ==
    dtasks[1].hop.present /\ dtasks[1].hop.count >= dtasks[1].hop.limit
HopDropped ==
    /\ dtasks[1].pc = "done"
    /\ dtasks[1].reason # NoReason
    /\ dtasks[1].id \notin dispatched
\* C35 as stated: with a HopCount block the egress count is the stored count
\* plus one whatever the number of attempts, and a bundle with
\* count >= limit is sent to no CLA and dropped with HopLimitExceeded.
C35_HopCountOnceOrDroppedWithHopLimit ==
    /\ dtasks[1].hop.present => EgressCountsOneMore
    /\ OverLimit =>
         /\ dtasks[2].egress = {}
         /\ dtasks[1].pc = "done" =>
              (HopDropped /\ dtasks[1].reason = "HopLimitExceeded")
\* C35 amended: ... and a bundle with count >= limit is sent to no CLA and
\* dropped, with HopLimitExceeded unless parsing gave a reason or the
\* lifetime check, which comes first, found the bundle expired.
C35_HopCountOnceOrDropped ==
    /\ dtasks[1].hop.present => EgressCountsOneMore
    /\ OverLimit =>
         /\ dtasks[2].egress = {}
         /\ dtasks[1].pc = "done" =>
              /\ HopDropped
              /\ \/ dtasks[1].reason = "HopLimitExceeded"
                 \/ dtasks[1].given # NoReason /\ dtasks[1].reason = dtasks[1].given
                 \/ dtasks[1].reason = "LifetimeExpired" /\ dtasks[1].id \in expired
\* A bundle below its hop limit was handed to CLAs on every attempt allowed,
\* counted once each time.
C35_Witness ==
    /\ dtasks[1].hop.present
    /\ dtasks[1].hop.count = 1
    /\ dtasks[2].attempts = MaxAttempts
    /\ dtasks[2].egress # {}

------------------------------------------------------------------------------
\* Shutdown of the dispatcher's workers: pipeline_pump (task 1, which also
\* carries the dispatch channel) and check_waiting (task 2), each with the
\* JoinSet of the bundle tasks it spawned.

ChannelCapacity == 2
MaxSpawned == 2
MaxProduced == 2
\* A worker in its select loop: the tasks of its JoinSet that run, that wait
\* in enqueue_bundle for room in the channel, and that have finished and are
\* not yet joined.
Worker(op) ==
    [op |-> op, pc |-> "select", running |-> 0, sending |-> 0, done |-> 0,
     spawned |-> 0, channel |-> 0, produced |-> 0]
Workers == {1, 2}
InSet(w) == w.running + w.sending + w.done
\* pipeline_pump, select branch rx.recv(): a process_bundle task is spawned.
\* The branches of select! that are ready are taken in no fixed order.
PumpRecv ==
    LET w == dtasks[1] IN
    /\ w.op = "pipeline_pump" /\ w.pc = "select"
    /\ w.channel > 0
    /\ w.spawned < MaxSpawned
    /\ dtasks' = [dtasks EXCEPT ![1] =
         [w EXCEPT !.channel = @ - 1, !.running = @ + 1, !.spawned = @ + 1]]
    /\ UNCHANGED restVars
\* check_waiting, select branch timer: a delay_bundle task is spawned for a
\* bundle that is due.
WaiterTimer ==
    LET w == dtasks[2] IN
    /\ w.op = "check_waiting" /\ w.pc = "select"
    /\ w.spawned < MaxSpawned
    /\ dtasks' = [dtasks EXCEPT ![2] =
         [w EXCEPT !.running = @ + 1, !.spawned = @ + 1]]
    /\ UNCHANGED restVars
\* task_set.join_next(), in the select loop or after it.
JoinNext(k) ==
    LET w == dtasks[k] IN
    /\ w.op \in {"pipeline_pump", "check_waiting"}
    /\ w.pc \in {"select", "joining"}
    /\ w.done > 0
    /\ dtasks' = [dtasks EXCEPT ![k] = [w EXCEPT !.done = @ - 1]]
    /\ UNCHANGED restVars
\* select branch cancel_token.cancelled(): break.
WorkerCancelled(k) ==
    LET w == dtasks[k] IN
    /\ w.op \in {"pipeline_pump", "check_waiting"}
    /\ w.pc = "select"
    /\ cancelled
    /\ dtasks' = [dtasks EXCEPT ![k] = [w EXCEPT !.pc = "joining"]]
    /\ UNCHANGED restVars
\* "Wait for all sub-tasks to complete": join_next() answers None and the
\* worker returns.
WorkerReturn(k) ==
    LET w == dtasks[k] IN
    /\ w.op \in {"pipeline_pump", "check_waiting"}
    /\ w.pc = "joining"
    /\ InSet(w) = 0
    /\ dtasks' = [dtasks EXCEPT ![k] = [w EXCEPT !.pc = "returned"]]
    /\ UNCHANGED restVars
\* A bundle task reaches dispatch_status_report: the report bundle is stored
\* and enqueue_bundle awaits tx.send.
TaskEnqueue(k) ==
    LET w == dtasks[k] IN
    /\ w.op \in {"pipeline_pump", "check_waiting"}
    /\ w.running > 0
    /\ dtasks' = [dtasks EXCEPT ![k] =
         [w EXCEPT !.running = @ - 1, !.sending = @ + 1]]
    /\ UNCHANGED restVars
\* tx.send completes when the channel has room; the task then finishes.
TaskSent(k) ==
    LET w == dtasks[k] IN
    /\ w.op \in {"pipeline_pump", "check_waiting"}
    /\ w.sending > 0
    /\ dtasks[1].pc # "returned"
    /\ dtasks[1].channel < ChannelCapacity
    /\ dtasks' = [[dtasks EXCEPT ![k] =
                     [w EXCEPT !.sending = @ - 1, !.done = @ + 1]]
                  EXCEPT ![1].channel = @ + 1]
    /\ UNCHANGED restVars
\* tx.send fails once pipeline_pump has returned and dropped the receiver;
\* the task ends with the error.
TaskSendFails(k) ==
    LET w == dtasks[k] IN
    /\ w.op \in {"pipeline_pump", "check_waiting"}
    /\ w.sending > 0
    /\ dtasks[1].pc = "returned"
    /\ dtasks' = [dtasks EXCEPT ![k] =
         [w EXCEPT !.sending = @ - 1, !.done = @ + 1]]
    /\ UNCHANGED restVars
\* A bundle task finishes without a report to send.
TaskFinish(k) ==
    LET w == dtasks[k] IN
    /\ w.op \in {"pipeline_pump", "check_waiting"}
    /\ w.running > 0
    /\ dtasks' = [dtasks EXCEPT ![k] =
         [w EXCEPT !.running = @ - 1, !.done = @ + 1]]
    /\ UNCHANGED restVars
\* The ingress enqueues a received bundle.
IngressEnqueue ==
    LET w == dtasks[1] IN
    /\ w.op = "pipeline_pump"
    /\ w.pc # "returned"
    /\ w.produced < MaxProduced
    /\ w.channel < ChannelCapacity
    /\ dtasks' = [dtasks EXCEPT ![1] =
         [w EXCEPT !.channel = @ + 1, !.produced = @ + 1]]
    /\ UNCHANGED restVars
InitPump ==
    /\ AtRest
    /\ dtasks = [k \in DTasks |->
         IF k = 1 THEN Worker("pipeline_pump") ELSE Worker("check_waiting")]
WorkerStep ==
    \/ PumpRecv
    \/ \E k \in Workers : JoinNext(k)
    \/ \E k \in Workers : WorkerCancelled(k)
    \/ \E k \in Workers : WorkerReturn(k)
    \/ \E k \in Workers : TaskEnqueue(k)
    \/ \E k \in Workers : TaskSent(k)
    \/ \E k \in Workers : TaskSendFails(k)
    \/ \E k \in Workers : TaskFinish(k)
NextPump ==
    \/ WorkerStep
    \/ WaiterTimer
    \/ IngressEnqueue
    \/ Shutdown
SpecPump == InitPump /\ [][NextPump]_vars
\* Every worker and every bundle task that can take a step does.
FairPump ==
    /\ SpecPump
    /\ WF_vars(PumpRecv)
    /\ \A k \in Workers :
         /\ WF_vars(JoinNext(k))
         /\ WF_vars(WorkerCancelled(k))
         /\ WF_vars(WorkerReturn(k))
         /\ WF_vars(TaskSent(k))
         /\ WF_vars(TaskSendFails(k))
         /\ WF_vars(TaskEnqueue(k) \/ TaskFinish(k))

\* C36: after the cancel signal pipeline_pump and check_waiting eventually
\* return, no bundle task of theirs blocking forever.
C36_WorkersReturnAfterCancel ==
    cancelled ~> (dtasks[1].pc = "returned" /\ dtasks[2].pc = "returned")

------------------------------------------------------------------------------
\* bundle_storage_check with its semaphore: the permits left, the stored
\* bundles still to visit, and the spawned tasks by where they are.

MaxStored == 4
\* restart: tasks inside restart_bundle; dropping: tasks back from it that
\* still hold the permit; ended: tasks past drop(permit), finished or about
\* to, not yet joined.
StorageCheck(todo) ==
    [op |-> "bundle_storage_check", pc |-> "scan", permits |-> Parallelism,
     todo |-> todo, restart |-> 0, dropping |-> 0, ended |-> 0]
Checking(k) ==
    dtasks[k].op = "bundle_storage_check" /\ dtasks[k].pc = "scan"
\* select branch semaphore.acquire_owned(): with the permit the task is
\* spawned and the inner loop left for the next stored bundle.
AcquirePermit_Unthrottled(k) ==
    LET s == dtasks[k] IN
    /\ Checking(k)
    /\ s.todo > 0
    /\ dtasks' = [dtasks EXCEPT ![k] =
         [s EXCEPT !.todo = @ - 1, !.restart = @ + 1]]
    /\ UNCHANGED restVars
AcquirePermit(k) ==
    LET s == dtasks[k] IN
    /\ Checking(k)
    /\ s.todo > 0
    /\ s.permits > 0
    /\ dtasks' = [dtasks EXCEPT ![k] =
         [s EXCEPT !.permits = @ - 1, !.todo = @ - 1, !.restart = @ + 1]]
    /\ UNCHANGED restVars
\* The spawned task: restart_bundle(...).await comes back,
RestartBundleReturns(k) ==
    LET s == dtasks[k] IN
    /\ s.op = "bundle_storage_check"
    /\ s.restart > 0
    /\ dtasks' = [dtasks EXCEPT ![k] =
         [s EXCEPT !.restart = @ - 1, !.dropping = @ + 1]]
    /\ UNCHANGED restVars
\* then drop(permit), and the task ends with (o, b).
DropPermit(k) ==
    LET s == dtasks[k] IN
    /\ s.op = "bundle_storage_check"
    /\ s.dropping > 0
    /\ dtasks' = [dtasks EXCEPT ![k] =
         [s EXCEPT !.dropping = @ - 1, !.permits = @ + 1, !.ended = @ + 1]]
    /\ UNCHANGED restVars
\* select branch task_set.join_next(), and the join loop after the scan.
CheckJoinNext(k) ==
    LET s == dtasks[k] IN
    /\ s.op = "bundle_storage_check"
    /\ s.pc \in {"scan", "joining"}
    /\ s.ended > 0
    /\ dtasks' = [dtasks EXCEPT ![k] = [s EXCEPT !.ended = @ - 1]]
    /\ UNCHANGED restVars
\* select branch cancel_token.cancelled(): the inner loop breaks and the
\* stored bundle is passed over.
CheckCancelled(k) ==
    LET s == dtasks[k] IN
    /\ Checking(k)
    /\ s.todo > 0
    /\ cancelled
    /\ dtasks' = [dtasks EXCEPT ![k] = [s EXCEPT !.todo = @ - 1]]
    /\ UNCHANGED restVars
\* The for loop is over; "Wait for all sub-tasks to complete".
CheckListed(k) ==
    LET s == dtasks[k] IN
    /\ Checking(k)
    /\ s.todo = 0
    /\ dtasks' = [dtasks EXCEPT ![k] = [s EXCEPT !.pc = "joining"]]
    /\ UNCHANGED restVars
CheckReturn(k) ==
    LET s == dtasks[k] IN
    /\ s.op = "bundle_storage_check"
    /\ s.pc = "joining"
    /\ s.restart + s.dropping + s.ended = 0
    /\ dtasks' = [dtasks EXCEPT ![k] = [s EXCEPT !.pc = "returned"]]
    /\ UNCHANGED restVars
InitPermit ==
    /\ AtRest
    /\ \E todo \in 0..MaxStored :
         dtasks = [k \in DTasks |-> IF k = 1 THEN StorageCheck(todo) ELSE NoDTask]
NextPermit ==
    \/ \E k \in DTasks : AcquirePermit(k)
    \/ \E k \in DTasks : RestartBundleReturns(k)
    \/ \E k \in DTasks : DropPermit(k)
    \/ \E k \in DTasks : CheckJoinNext(k)
    \/ \E k \in DTasks : CheckCancelled(k)
    \/ \E k \in DTasks : CheckListed(k)
    \/ \E k \in DTasks : CheckReturn(k)
    \/ Shutdown
SpecPermit == InitPermit /\ [][NextPermit]_vars

\* C37: during the restart scan at most `parallelism` restart_bundle tasks
\* run at a time: each task spawned holds a permit of the semaphore from
\* before its spawn until restart_bundle has come back.
C37_RestartTasksWithinPermits ==
    \A k \in DTasks :
        dtasks[k].op = "bundle_storage_check" =>
            /\ dtasks[k].restart <= Parallelism
            /\ dtasks[k].permits + dtasks[k].restart + dtasks[k].dropping
                 = Parallelism
\* The semaphore is exhausted by running tasks while stored bundles remain.
C37_Witness ==
    /\ dtasks[1].op = "bundle_storage_check"
    /\ dtasks[1].restart = Parallelism
    /\ dtasks[1].permits = 0
    /\ dtasks[1].todo > 0

------------------------------------------------------------------------------
\* The two maps of the CLA registry against each other.

\* The CLAs the registry holds under a token, and those it holds under a name.
ByToken == {clas.clas_by_token[t] : t \in Tokens} \ {NoCla}
ByName == {clas.clas_by_name[n] : n \in ClaNames} \ {NoCla}
\* C38: after any sequence of register and unregister calls clas_by_name and
\* clas_by_token hold the same CLAs: find_by_name finds a name iff a
\* registered token maps to a CLA of that name, also after one of two CLAs
\* registered under the same name was unregistered.
C38_NameAndTokenMapsAgree ==
    (\A k \in DTasks : Free(k)) =>
        /\ ByToken = ByName
        /\ \A n \in ClaNames :
              clas.clas_by_name[n] # NoCla
                 <=> \E t \in Tokens : clas.clas_by_token[t].name = n

------------------------------------------------------------------------------
\* The calls over a bundle-data store that chooses its names itself: a name
\* never used before, or the content address, which is the name under which
\* the same bytes are already stored.

StorageNames(d) ==
    {n \in Names : n = nextName \/ blobs[n] = d}
\* Store::store_data with the name the backend returns.
StoreDataAs(c, name) ==
    /\ calls[c].pc = "store_data"
    /\ name \in StorageNames(calls[c].data)
    /\ blobs' = BlobStore(name, calls[c].data)
    /\ nextName' = IF name = nextName THEN nextName + 1 ELSE nextName
    /\ calls' = [calls EXCEPT ![c].name = name,
                              ![c].hash = Hash(calls[c].data),
                              ![c].written = calls[c].data,
                              ![c].pc = IF calls[c].op = "store"
                                        THEN "store_metadata" ELSE "report"]
    /\ UNCHANGED <<rows, unconfirmed, reports, cfgVars, dispVars, dispatched, scanVars>>
NextContent ==
    \/ \E c \in Calls, bytes \in Bytes : ReceiveBundle(c, bytes)
    \/ \E c \in Calls, id \in Ids : StoreBegin(c, id)
    \/ \E c \in Calls, name \in Names : StoreDataAs(c, name)
    \/ \E c \in Calls : ReceiveInnerReport(c)
    \/ \E c \in Calls : ReceiveInnerStoreMetadata(c)
    \/ \E c \in Calls : ReceiveInnerDeleteDup(c)
    \/ \E c \in Calls : ReceiveInnerCheck(c)
    \/ \E c \in Calls : StoreStoreMetadata(c)
    \/ \E c \in Calls : StoreRemoveDup(c)
SpecContent == InitStore /\ [][NextContent]_vars

\* Call c finds its bundle a duplicate and cleans up after itself.
DuplicateStep(c) ==
    /\ calls[c].pc \in {"delete_dup", "remove_dup"}
    /\ calls'[c].pc = "done"
\* C39: handling a duplicate submission leaves the row stored for the
\* BundleId and the blob it references as they are, whichever storage name
\* the second copy got.
C39_DuplicateLeavesStoredBlob ==
    [][\A c \in Calls :
         DuplicateStep(c) =>
            LET row == MetaLoad(calls[c].id) IN
            /\ rows' = rows
            /\ row.storage_name \in Names =>
                 blobs'[row.storage_name] = blobs[row.storage_name]]_vars

------------------------------------------------------------------------------
\* Status reports about status reports: the bundles in the agent, each with
\* the report requests of its flags, whether it is an administrative record,
\* the events it has had, and its distance from the original bundle.

MaxPool == 6
\* The bundle flags bundle::Builder sets when only is_admin_record(true) is
\* called: no report is requested.
BuilderFlags == {}
OriginalBundle(f, admin) ==
    [flags |-> f, admin |-> admin, seen |-> {}, gen |-> 0]
\* dispatch_status_report: the report bundle built for a report on b.
DispatchStatusReport_Inherits(b) ==
    [flags |-> b.flags, admin |-> TRUE, seen |-> {}, gen |-> b.gen + 1]
DispatchStatusReport(b) ==
    [flags |-> BuilderFlags, admin |-> TRUE, seen |-> {}, gen |-> b.gen + 1]
\* The flag each report function tests.
FlagTested(kind) ==
    IF kind = "delivered" THEN "forwarded" ELSE kind
\* An event of bundle i is handled and its report function called: the
\* bundle is received, forwarded, delivered or deleted.  A report bundle is
\* stored and queued like any bundle.
ReportEvent(k, i, kind) ==
    LET a == dtasks[k]
        b == a.pool[i]
        wanted == statusReports /\ FlagTested(kind) \in b.flags
        seen == [a.pool EXCEPT ![i].seen = @ \cup {kind}] IN
    /\ a.op = "reports"
    /\ kind \notin b.seen
    /\ kind = "received" => b.gen = 0
    /\ Len(a.pool) < MaxPool
    /\ dtasks' = [dtasks EXCEPT ![k] =
         [a EXCEPT !.pool = IF wanted
                            THEN Append(seen, DispatchStatusReport(b))
                            ELSE seen]]
    /\ UNCHANGED restVars
InitAdmin ==
    /\ blobs = [n \in Names |-> NoData]
    /\ rows = {}
    /\ unconfirmed = {}
    /\ nextName = 1
    /\ reports = EmptyBag
    /\ statusReports \in BOOLEAN
    /\ clock = NoClock
    /\ queued = NoQueued
    /\ clas = NoClas
    /\ flags = [i \in Ids |-> AllKinds]
    /\ expired = {}
    /\ dispatched = {}
    /\ calls = [c \in Calls |-> IdleCall]
    /\ main = MainServing
    /\ tasks = [n \in Names |-> NoTask]
    /\ cancelled = FALSE
    /\ snap = NoSnap
    /\ config = DefaultConfig
    /\ ack = [i \in Ids |-> NoAck]
    /\ \E f \in SUBSET AllKinds, admin \in BOOLEAN :
         dtasks = [k \in DTasks |->
            IF k = 1 THEN [op |-> "reports", pc |-> "serving",
                           pool |-> <<OriginalBundle(f, admin)>>]
            ELSE NoDTask]
NextAdmin ==
    \E i \in 1..MaxPool, kind \in AllKinds :
        i <= Len(dtasks[1].pool) /\ ReportEvent(1, i, kind)
SpecAdmin == InitAdmin /\ [][NextAdmin]_vars

====
